---------------------------- MODULE Spec2Model ----------------------------
(***************************************************************************)
(* The annotation engine of the design-QA review tool: the ReportDisplay   *)
(* component's state (useState cells), its event handlers and the closure  *)
(* captured by its Escape-key effect, and the App component's uploaders    *)
(* with their pending file reads.                                          *)
(*                                                                         *)
(* React semantics kept by the model: a handler reads the values of the    *)
(* render it was created in (the snapshot `cur`), every setX(value) call   *)
(* of one event is batched and the last call on a cell wins, and a         *)
(* functional update setX(prev => ...) is applied to the pending value.    *)
(* A handler is therefore an operator from (cur, st) to st, where st is    *)
(* the pending value of the cells.                                         *)
(***************************************************************************)
EXTENDS Integers, Sequences, FiniteSets, TLC

VARIABLES
    issues,          \* useState<Issue[]>: the committed collection
    selectedIssueId, \* useState<string|null>: the detail view's selection
    editingIssueId,  \* useState<string|null>: the record under edit
    editForm,        \* useState<Partial<Issue>>: the edit buffer
    dragStart,       \* useState<{x,y,type}|null>
    currentDrag,     \* useState<{x,y}|null>
    now,             \* the last value Date.now() returned
    escIssues,       \* `issues` as captured by the registered handleEsc closure
                     \* (<< >> while editingIssueId is null: the listener then
                     \* never reads it)
    issuesAtStart,   \* history: the committed collection when the session began
    gestures,        \* history: the number of buffer gestures handled so far
    lastOp,          \* history: the last event handled
    app,             \* App: its useState cells and the FileReaders still reading
    userAction       \* history: the user's last upload or clear on each side

vars == <<issues, selectedIssueId, editingIssueId, editForm, dragStart,
          currentDrag, now, escIssues, issuesAtStart, gestures, lastOp,
          app, userAction>>

cells == <<issues, selectedIssueId, editingIssueId, editForm, dragStart, currentDrag>>

-----------------------------------------------------------------------------
(* Bounds of the model *)

MaxIssues == 2      \* createIssue is not offered beyond this many records
MaxClock == 2       \* Date.now() takes the values 1..MaxClock
MaxAnn == 1         \* a drag is not offered beyond this many primitives per side
MaxGestures == 2    \* field edits, pointer-downs and overlay deletions of a run

-----------------------------------------------------------------------------
(* Values *)

Null == 0                       \* null identifier; identifiers are >= 1
NoDrag == [x |-> -1, y |-> -1, type |-> "none"]
NoPoint == [x |-> -1, y |-> -1]
EmptyForm == [f \in {} |-> 0]   \* the object {}

Sides == {"design", "live"}
Kinds == {"box", "arrow"}

\* Values typed into the form's controls.
TitleInputs == {"Header misaligned"}
DescriptionInputs == {"Header is 4px too low"}
SeverityInputs == {"High"}

\* The surfaces' bounding rectangles (getBoundingClientRect of the panel).
Rect(type) ==
    IF type = "design" THEN [width |-> 1000, height |-> 500]
    ELSE [width |-> 500, height |-> 1000]

\* Pointer positions relative to the surface, as delivered with the events.
PressPoints == { [x |-> 100, y |-> 100] }
MovePoints == { [x |-> 400, y |-> 100] }

\* The issue a collaborator result contributes (after the input adapter).
CollabIssue ==
    [ id |-> 101, title |-> "Header misaligned",
      description |-> "Header is 4px too low",
      liveAnnotations |-> << [type |-> "box", coords |-> <<100, 200, 300, 400>>] >>,
      designAnnotations |-> << >>,
      designReference |-> "ref", liveObservation |-> "obs", suggestion |-> "fix",
      severity |-> "High", annotationType |-> "box" ]

\* The files the user picks, and the data URL FileReader.readAsDataURL gives.
Files == {"mockup.png", "screenshot.png"}
NoFile == "null"
DataUrl(file) == [dataUrl |-> file]

\* App when it mounts ReportDisplay: handleStartAnnotation requires both files.
AppAtMount ==
    [ designFile |-> "mockup.png", designPreview |-> DataUrl("mockup.png"),
      liveFile |-> "screenshot.png", livePreview |-> DataUrl("screenshot.png"),
      reads |-> {}, started |-> 2 ]
ActionsAtMount ==
    [ design |-> [kind |-> "upload", file |-> "mockup.png"],
      live |-> [kind |-> "upload", file |-> "screenshot.png"] ]

\* result.specificIssues: the empty session App starts, or a collaborator result.
InitialResults == { << >>, << CollabIssue >> }

-----------------------------------------------------------------------------
(* Object and array helpers *)

\* {...a, ...b}
Spread(a, b) ==
    [f \in (DOMAIN a) \cup (DOMAIN b) |-> IF f \in DOMAIN b THEN b[f] ELSE a[f]]

\* obj.f || dflt, for a field that may be absent
FieldOr(obj, f, dflt) == IF f \in DOMAIN obj THEN obj[f] ELSE dflt

\* arr.filter(i => i.id !== id)
WithoutId(arr, id) == SelectSeq(arr, LAMBDA r : r.id # id)

\* arr.findIndex(i => i.id === id) + 1 (0 when absent)
FindIndex(arr, id) ==
    IF \E i \in 1..Len(arr) : arr[i].id = id
    THEN CHOOSE i \in 1..Len(arr) :
            /\ arr[i].id = id
            /\ \A j \in 1..(i - 1) : arr[j].id # id
    ELSE 0

\* arr.filter((_, i) => i !== index), index counted from 1
WithoutIndex(arr, index) ==
    [k \in 1..(Len(arr) - (IF index \in 1..Len(arr) THEN 1 ELSE 0)) |->
        IF k < index THEN arr[k] ELSE arr[k + 1]]

HasId(arr, id) == \E i \in 1..Len(arr) : arr[i].id = id

\* The pending values of the cells at the start of an event.
Cur ==
    [ issues |-> issues, selectedIssueId |-> selectedIssueId,
      editingIssueId |-> editingIssueId, editForm |-> editForm,
      dragStart |-> dragStart, currentDrag |-> currentDrag ]

-----------------------------------------------------------------------------
(* CRUD handlers *)

\* The test of cancelEdit: the committed record is an untouched new issue.
IsUntouchedNew(cur) ==
    LET k == FindIndex(cur.issues, cur.editingIssueId) IN
    /\ k # 0
    /\ Len(cur.issues[k].liveAnnotations) = 0
    /\ Len(cur.issues[k].designAnnotations) = 0
    /\ cur.issues[k].title = "New Issue"

\* Mutant: the cancel path merges the buffer into the committed record.
cancelEditMergesBuffer(cur, st) ==
    [st EXCEPT
        !.issues = [k \in 1..Len(cur.issues) |->
                      IF cur.issues[k].id = cur.editingIssueId
                      THEN Spread(cur.issues[k], cur.editForm)
                      ELSE cur.issues[k]],
        !.editingIssueId = Null,
        !.editForm = EmptyForm]

cancelEdit(cur, st) ==
    LET st1 == IF IsUntouchedNew(cur)
               THEN [st EXCEPT !.issues = WithoutId(cur.issues, cur.editingIssueId)]
               ELSE st
    IN [st1 EXCEPT !.editingIssueId = Null, !.editForm = EmptyForm]

\* Mutant: startEdit leaves the detail selection open.
startEditKeepsSelection(cur, st, issue) ==
    [st EXCEPT !.editingIssueId = issue.id,
               !.editForm = Spread(issue,
                    [liveAnnotations |-> issue.liveAnnotations,
                     designAnnotations |-> issue.designAnnotations])]

\* Mutant: the running session is not resolved before the switch.
startEditWithoutCancel(cur, st, issue) ==
    [st EXCEPT !.editingIssueId = issue.id,
               !.editForm = Spread(issue,
                    [liveAnnotations |-> issue.liveAnnotations,
                     designAnnotations |-> issue.designAnnotations]),
               !.selectedIssueId = Null]

startEdit(cur, st, issue) ==
    LET st1 == IF cur.editingIssueId # Null /\ cur.editingIssueId # issue.id
               THEN cancelEdit(cur, st)
               ELSE st
    IN [st1 EXCEPT !.editingIssueId = issue.id,
                   !.editForm = Spread(issue,
                        [liveAnnotations |-> issue.liveAnnotations,
                         designAnnotations |-> issue.designAnnotations]),
                   !.selectedIssueId = Null]

NewIssue(newId) ==
    [ id |-> newId, title |-> "New Issue", description |-> "Describe the issue...",
      liveAnnotations |-> << >>, designAnnotations |-> << >>,
      designReference |-> "Expected behavior...",
      liveObservation |-> "Observed behavior...",
      suggestion |-> "Suggested fix...",
      severity |-> "Medium", annotationType |-> "box" ]

\* Mutant: the new record is appended at the end of the collection.
createIssueAppends(cur, st, newId) ==
    startEdit(cur, [st EXCEPT !.issues = Append(cur.issues, NewIssue(newId))],
              NewIssue(newId))

createIssue(cur, st, newId) ==
    startEdit(cur, [st EXCEPT !.issues = <<NewIssue(newId)>> \o cur.issues],
              NewIssue(newId))

\* Mutant: the confirmation's answer is ignored.
deleteIssueUnconfirmed(cur, st, id, confirmed) ==
    [st EXCEPT !.issues = WithoutId(cur.issues, id)]

\* Mutant: a confirmed deletion always ends the edit session.
deleteIssueAlwaysCancels(cur, st, id, confirmed) ==
    IF confirmed
    THEN [st EXCEPT !.issues = WithoutId(cur.issues, id),
                    !.editingIssueId = Null, !.editForm = EmptyForm]
    ELSE st

deleteIssue(cur, st, id, confirmed) ==
    IF confirmed
    THEN LET st1 == [st EXCEPT !.issues = WithoutId(cur.issues, id)]
         IN IF cur.editingIssueId = id THEN cancelEdit(cur, st1) ELSE st1
    ELSE st

\* Mutant: the saved record is moved to the front of the collection.
saveEditMovesToFront(cur, st) ==
    IF cur.editingIssueId = Null THEN st
    ELSE LET k == FindIndex(cur.issues, cur.editingIssueId)
         IN [st EXCEPT
                !.issues = IF k = 0 THEN cur.issues
                           ELSE <<Spread(cur.issues[k], cur.editForm)>>
                                \o WithoutId(cur.issues, cur.editingIssueId),
                !.editingIssueId = Null,
                !.editForm = EmptyForm]

saveEdit(cur, st) ==
    IF cur.editingIssueId = Null THEN st
    ELSE [st EXCEPT
            !.issues = [k \in 1..Len(cur.issues) |->
                          IF cur.issues[k].id = cur.editingIssueId
                          THEN Spread(cur.issues[k], cur.editForm)
                          ELSE cur.issues[k]],
            !.editingIssueId = Null,
            !.editForm = EmptyForm]

\* The keydown listener: it runs the cancelEdit of the render that registered it.
handleEsc(cur, st, registered) ==
    IF cur.editingIssueId # Null
    THEN cancelEdit([cur EXCEPT !.issues = registered], st)
    ELSE [st EXCEPT !.selectedIssueId = Null]

-----------------------------------------------------------------------------
(* Buffer handlers *)

\* Mutant: switching the default kind converts the primitives already drawn.
setFieldRetypes(cur, st, f, v) ==
    LET retyped(seq) == [k \in 1..Len(seq) |-> [seq[k] EXCEPT !.type = v]]
        form == Spread(cur.editForm, [g \in {f} |-> v])
    IN [st EXCEPT !.editForm =
            IF f = "annotationType" /\ "liveAnnotations" \in DOMAIN form
            THEN [form EXCEPT !.liveAnnotations = retyped(form.liveAnnotations),
                              !.designAnnotations = retyped(form.designAnnotations)]
            ELSE form]

\* onChange / onClick of the form's controls: setEditForm({ ...editForm, f: v })
setField(cur, st, f, v) ==
    [st EXCEPT !.editForm = Spread(cur.editForm, [g \in {f} |-> v])]

\* Mutant: the last primitive of the side is removed, whatever the index.
deleteAnnotationLast(cur, st, type, index) ==
    LET f == IF type = "design" THEN "designAnnotations" ELSE "liveAnnotations"
        seq == FieldOr(st.editForm, f, << >>)
    IN [st EXCEPT !.editForm =
            Spread(st.editForm, [g \in {f} |-> WithoutIndex(seq, Len(seq))])]

deleteAnnotation(cur, st, type, index) ==
    LET f == IF type = "design" THEN "designAnnotations" ELSE "liveAnnotations"
    IN [st EXCEPT !.editForm =
            Spread(st.editForm,
                   [g \in {f} |-> WithoutIndex(FieldOr(st.editForm, f, << >>), index)])]

-----------------------------------------------------------------------------
(* Drawing handlers *)

Min(a, b) == IF a < b THEN a ELSE b
Max(a, b) == IF a > b THEN a ELSE b
Abs(a) == IF a < 0 THEN -a ELSE a

DragThreshold == 5

\* (raw / dimension) * 1000; the surface sizes of the model divide raw * 1000,
\* so the quotient is the exact value.
toNormalized(raw, dimension) == (raw * 1000) \div dimension

\* Mutant: a pointer-down starts a drag whether or not a record is under edit.
handleMouseDownUnguarded(cur, st, type, p) ==
    [st EXCEPT !.dragStart = [x |-> p.x, y |-> p.y, type |-> type],
               !.currentDrag = [x |-> p.x, y |-> p.y]]

handleMouseDown(cur, st, type, p) ==
    IF cur.editingIssueId = Null THEN st
    ELSE [st EXCEPT !.dragStart = [x |-> p.x, y |-> p.y, type |-> type],
                    !.currentDrag = [x |-> p.x, y |-> p.y]]

handleMouseMove(cur, st, rect, p) ==
    IF cur.dragStart = NoDrag THEN st
    ELSE [st EXCEPT !.currentDrag =
            [x |-> Max(0, Min(p.x, rect.width)),
             y |-> Max(0, Min(p.y, rect.height))]]

BelowThreshold(start, current) ==
    /\ Abs(start.x - current.x) < DragThreshold
    /\ Abs(start.y - current.y) < DragThreshold

\* Mutant: a box keeps the order of the drag's endpoints.
newAnnotationUnordered(start, current, rect, annType) ==
    [ type |-> annType,
      coords |-> << toNormalized(start.y, rect.height), toNormalized(start.x, rect.width),
                    toNormalized(current.y, rect.height), toNormalized(current.x, rect.width) >> ]

\* Mutant: an arrow is normalized like a box.
newAnnotationAlwaysBox(start, current, rect, annType) ==
    LET startX == toNormalized(start.x, rect.width)
        startY == toNormalized(start.y, rect.height)
        endX == toNormalized(current.x, rect.width)
        endY == toNormalized(current.y, rect.height)
    IN [ type |-> annType,
         coords |-> <<Min(startY, endY), Min(startX, endX),
                      Max(startY, endY), Max(startX, endX)>> ]

\* Mutant: the coords are stored x before y.
newAnnotationXFirst(start, current, rect, annType) ==
    LET startX == toNormalized(start.x, rect.width)
        startY == toNormalized(start.y, rect.height)
        endX == toNormalized(current.x, rect.width)
        endY == toNormalized(current.y, rect.height)
    IN [ type |-> annType,
         coords |-> IF annType = "arrow"
                    THEN <<startX, startY, endX, endY>>
                    ELSE <<Min(startX, endX), Min(startY, endY),
                           Max(startX, endX), Max(startY, endY)>> ]

\* The primitive a completed drag constructs.
newAnnotation(start, current, rect, annType) ==
    LET startX == toNormalized(start.x, rect.width)
        startY == toNormalized(start.y, rect.height)
        endX == toNormalized(current.x, rect.width)
        endY == toNormalized(current.y, rect.height)
    IN [ type |-> annType,
         coords |-> IF annType = "arrow"
                    THEN <<startY, startX, endY, endX>>
                    ELSE <<Min(startY, endY), Min(startX, endX),
                           Max(startY, endY), Max(startX, endX)>> ]

\* Mutant: the buffer's sequences alias the committed record's, so the new
\* primitive also lands in the committed collection.
handleMouseUpAliased(cur, st, rect) ==
    IF cur.dragStart = NoDrag \/ cur.currentDrag = NoPoint THEN st
    ELSE IF BelowThreshold(cur.dragStart, cur.currentDrag)
    THEN [st EXCEPT !.dragStart = NoDrag, !.currentDrag = NoPoint]
    ELSE LET annType == FieldOr(cur.editForm, "annotationType", "box")
             ann == newAnnotation(cur.dragStart, cur.currentDrag, rect, annType)
             f == IF cur.dragStart.type = "design"
                  THEN "designAnnotations" ELSE "liveAnnotations"
         IN [st EXCEPT
                !.editForm = Spread(st.editForm,
                    [g \in {f} |-> Append(FieldOr(st.editForm, f, << >>), ann)]),
                !.issues = [k \in 1..Len(cur.issues) |->
                              IF cur.issues[k].id = cur.editingIssueId
                              THEN Spread(cur.issues[k],
                                     [g \in {f} |-> Append(cur.issues[k][f], ann)])
                              ELSE cur.issues[k]],
                !.dragStart = NoDrag,
                !.currentDrag = NoPoint]

\* Mutant: a displacement of exactly 5 pixels is discarded as well.
handleMouseUpInclusive(cur, st, rect) ==
    IF cur.dragStart = NoDrag \/ cur.currentDrag = NoPoint THEN st
    ELSE IF /\ Abs(cur.dragStart.x - cur.currentDrag.x) <= DragThreshold
            /\ Abs(cur.dragStart.y - cur.currentDrag.y) <= DragThreshold
    THEN [st EXCEPT !.dragStart = NoDrag, !.currentDrag = NoPoint]
    ELSE LET annType == FieldOr(cur.editForm, "annotationType", "box")
             ann == newAnnotation(cur.dragStart, cur.currentDrag, rect, annType)
             f == IF cur.dragStart.type = "design"
                  THEN "designAnnotations" ELSE "liveAnnotations"
         IN [st EXCEPT
                !.editForm = Spread(st.editForm,
                    [g \in {f} |-> Append(FieldOr(st.editForm, f, << >>), ann)]),
                !.dragStart = NoDrag,
                !.currentDrag = NoPoint]

\* Mutant: the primitive is appended to the sequence of the other surface.
handleMouseUpOtherSide(cur, st, rect) ==
    IF cur.dragStart = NoDrag \/ cur.currentDrag = NoPoint THEN st
    ELSE IF BelowThreshold(cur.dragStart, cur.currentDrag)
    THEN [st EXCEPT !.dragStart = NoDrag, !.currentDrag = NoPoint]
    ELSE LET annType == FieldOr(cur.editForm, "annotationType", "box")
             ann == newAnnotation(cur.dragStart, cur.currentDrag, rect, annType)
             f == IF cur.dragStart.type = "design"
                  THEN "liveAnnotations" ELSE "designAnnotations"
         IN [st EXCEPT
                !.editForm = Spread(st.editForm,
                    [g \in {f} |-> Append(FieldOr(st.editForm, f, << >>), ann)]),
                !.dragStart = NoDrag,
                !.currentDrag = NoPoint]

\* Mutant: every release of a drag creates a primitive.
handleMouseUpNoThreshold(cur, st, rect) ==
    IF cur.dragStart = NoDrag \/ cur.currentDrag = NoPoint THEN st
    ELSE LET annType == FieldOr(cur.editForm, "annotationType", "box")
             ann == newAnnotation(cur.dragStart, cur.currentDrag, rect, annType)
             f == IF cur.dragStart.type = "design"
                  THEN "designAnnotations" ELSE "liveAnnotations"
         IN [st EXCEPT
                !.editForm = Spread(st.editForm,
                    [g \in {f} |-> Append(FieldOr(st.editForm, f, << >>), ann)]),
                !.dragStart = NoDrag,
                !.currentDrag = NoPoint]

handleMouseUp(cur, st, rect) ==
    IF cur.dragStart = NoDrag \/ cur.currentDrag = NoPoint THEN st
    ELSE IF BelowThreshold(cur.dragStart, cur.currentDrag)
    THEN [st EXCEPT !.dragStart = NoDrag, !.currentDrag = NoPoint]
    ELSE LET annType == FieldOr(cur.editForm, "annotationType", "box")
             ann == newAnnotation(cur.dragStart, cur.currentDrag, rect, annType)
             f == IF cur.dragStart.type = "design"
                  THEN "designAnnotations" ELSE "liveAnnotations"
         IN [st EXCEPT
                !.editForm = Spread(st.editForm,
                    [g \in {f} |-> Append(FieldOr(st.editForm, f, << >>), ann)]),
                !.dragStart = NoDrag,
                !.currentDrag = NoPoint]

\* Mutant: leaving the surface keeps the drag.
handleMouseLeaveKeepsDrag(cur, st) == st

handleMouseLeave(cur, st) ==
    IF cur.dragStart # NoDrag
    THEN [st EXCEPT !.dragStart = NoDrag, !.currentDrag = NoPoint]
    ELSE st

-----------------------------------------------------------------------------
(* An event: the handler's batched updates are committed, the component    *)
(* renders again, and the Escape effect (dependency list [editingIssueId]) *)
(* registers a new listener only when editingIssueId changed.              *)

\* lastOp names the last operation of the editing state machine, with the
\* identifier it was about; any other event (a field edit, a pointer event,
\* a selection) resets it to Other.
Op(name, id) == [op |-> name, id |-> id]
Other == [op |-> "other", id |-> Null]

Commit(st, op, starts) ==
    /\ issues' = st.issues
    /\ selectedIssueId' = st.selectedIssueId
    /\ editingIssueId' = st.editingIssueId
    /\ editForm' = st.editForm
    /\ dragStart' = st.dragStart
    /\ currentDrag' = st.currentDrag
    /\ escIssues' = IF st.editingIssueId = Null THEN << >>
                    ELSE IF st.editingIssueId # editingIssueId THEN st.issues
                    ELSE escIssues
    /\ issuesAtStart' = IF st.editingIssueId = Null THEN << >>
                        ELSE IF starts THEN st.issues ELSE issuesAtStart
    /\ lastOp' = op
    /\ UNCHANGED <<app, userAction>>

\* A buffer gesture: the run handles at most MaxGestures of them.
Gesture == gestures < MaxGestures /\ gestures' = gestures + 1
NoGesture == gestures' = gestures
NoClock == now' = now

\* What the interface renders.
FormRendered == editingIssueId # Null /\ HasId(issues, editingIssueId)
ListItemRendered(i) == i \in 1..Len(issues) /\ issues[i].id # editingIssueId
ItemButtonsRendered(i) == ListItemRendered(i) /\ editingIssueId = Null
ModalRendered == selectedIssueId # Null /\ HasId(issues, selectedIssueId)

\* The buffer no longer equals the committed record it was copied from.
BufferDirty ==
    \E k \in 1..Len(issues) :
        issues[k].id = editingIssueId /\ editForm # issues[k]

\* The annotations drawn for issue i on a side: the buffer's for the record under edit.
ShownAnnotations(i, type) ==
    LET f == IF type = "design" THEN "designAnnotations" ELSE "liveAnnotations"
    IN IF issues[i].id = editingIssueId THEN FieldOr(editForm, f, << >>)
       ELSE issues[i][f]

IsDegenerate(coords) ==
    coords[1] = 0 /\ coords[2] = 0 /\ coords[3] = 0 /\ coords[4] = 0

OverlayRendered(i, type, k) ==
    /\ i \in 1..Len(issues)
    /\ k \in 1..Len(ShownAnnotations(i, type))
    /\ ~IsDegenerate(ShownAnnotations(i, type)[k].coords)

-----------------------------------------------------------------------------
(* Events *)

\* Date.now(): the clock never runs backwards, and may not have advanced
\* since it was last read.
CreateIssue(t) ==
    /\ NoGesture
    /\ Len(issues) < MaxIssues
    /\ t >= now
    /\ now' = t
    /\ Commit(createIssue(Cur, Cur, t),
              Spread(Op("createIssue", t),
                     [len |-> Len(issues), sel |-> selectedIssueId]), TRUE)

ClickStartEdit(i) ==
    /\ NoClock
    /\ NoGesture
    /\ ItemButtonsRendered(i)
    /\ Commit(startEdit(Cur, Cur, issues[i]),
              Spread(Op("startEdit", issues[i].id), [sel |-> selectedIssueId]), TRUE)

ModalEdit ==
    /\ NoClock
    /\ NoGesture
    /\ ModalRendered
    /\ LET k == FindIndex(issues, selectedIssueId)
       IN Commit(startEdit(Cur, Cur, issues[k]),
                 Spread(Op("startEdit", issues[k].id), [sel |-> selectedIssueId]), TRUE)

ModalClose ==
    /\ NoClock
    /\ NoGesture
    /\ ModalRendered
    /\ Commit([Cur EXCEPT !.selectedIssueId = Null], Other, FALSE)

ClickListItem(i) ==
    /\ NoClock
    /\ NoGesture
    /\ ListItemRendered(i)
    /\ Commit(IF editingIssueId = Null
              THEN [Cur EXCEPT !.selectedIssueId = issues[i].id] ELSE Cur,
              Other, FALSE)

\* deleteIssue(id) on a listed record; the interface offers the button only
\* while no record is under edit (ClickDelete).
InvokeDelete(i, confirmed) ==
    /\ NoClock
    /\ NoGesture
    /\ i \in 1..Len(issues)
    /\ Commit(deleteIssue(Cur, Cur, issues[i].id, confirmed),
              IF confirmed THEN Op("deleteIssue", issues[i].id)
              ELSE Op("deleteDeclined", Null),
              FALSE)

ClickDelete(i, confirmed) ==
    /\ ItemButtonsRendered(i)
    /\ InvokeDelete(i, confirmed)

ClickSave ==
    /\ NoClock
    /\ NoGesture
    /\ FormRendered
    /\ Commit(saveEdit(Cur, Cur), Op("saveEdit", editingIssueId), FALSE)

ClickCancel ==
    /\ NoClock
    /\ NoGesture
    /\ FormRendered
    /\ Commit(cancelEdit(Cur, Cur),
              Spread(Op("cancelEdit", editingIssueId),
                     [removed |-> IsUntouchedNew(Cur), dirty |-> BufferDirty]), FALSE)

PressEscape ==
    /\ NoClock
    /\ NoGesture
    /\ Commit(handleEsc(Cur, Cur, escIssues), Op("escape", editingIssueId), FALSE)

EditField(f, v) ==
    /\ NoClock
    /\ Gesture
    /\ FormRendered
    /\ Commit(setField(Cur, Cur, f, v), Other, FALSE)

ClickOverlay(i, type, k) ==
    /\ NoClock
    /\ OverlayRendered(i, type, k)
    /\ IF issues[i].id = editingIssueId THEN Gesture ELSE NoGesture
    /\ Commit(IF issues[i].id = editingIssueId
              THEN deleteAnnotation(Cur, Cur, type, k)
              ELSE IF editingIssueId = Null
                   THEN [Cur EXCEPT !.selectedIssueId = issues[i].id]
                   ELSE Cur,
              Other, FALSE)

MouseDown(type, p) ==
    /\ NoClock
    /\ IF editingIssueId # Null THEN Gesture ELSE NoGesture
    /\ Commit(handleMouseDown(Cur, Cur, type, p), Other, FALSE)

\* A move or release is delivered to the surface the pointer is over: the one
\* the drag started on, since leaving it ends the drag.
EventSurface == IF dragStart = NoDrag THEN "design" ELSE dragStart.type

MouseMove(p) ==
    /\ NoClock
    /\ NoGesture
    /\ Commit(handleMouseMove(Cur, Cur, Rect(EventSurface), p),
              Other, FALSE)

MouseUp ==
    /\ NoClock
    /\ NoGesture
    /\ \/ dragStart = NoDrag
       \/ BelowThreshold(dragStart, currentDrag)
       \/ Len(FieldOr(editForm, IF dragStart.type = "design" THEN "designAnnotations"
                                ELSE "liveAnnotations", << >>)) < MaxAnn
    /\ Commit(handleMouseUp(Cur, Cur, Rect(EventSurface)),
              Other, FALSE)

MouseLeave ==
    /\ NoClock
    /\ NoGesture
    /\ Commit(handleMouseLeave(Cur, Cur), Other, FALSE)

-----------------------------------------------------------------------------

Init ==
    /\ issues \in InitialResults
    /\ selectedIssueId = Null
    /\ editingIssueId = Null
    /\ editForm = EmptyForm
    /\ dragStart = NoDrag
    /\ currentDrag = NoPoint
    /\ now = 1
    /\ escIssues = << >>
    /\ issuesAtStart = << >>
    /\ gestures = 0
    /\ app = AppAtMount
    /\ userAction = ActionsAtMount
    /\ lastOp = [op |-> "mount", id |-> Null]

Next ==
    \/ \E t \in 1..MaxClock : CreateIssue(t)
    \/ \E i \in 1..Len(issues) : ClickStartEdit(i)
    \/ ModalEdit
    \/ ModalClose
    \/ \E i \in 1..Len(issues) : ClickListItem(i)
    \/ \E i \in 1..Len(issues), confirmed \in BOOLEAN : ClickDelete(i, confirmed)
    \/ ClickSave
    \/ ClickCancel
    \/ PressEscape
    \/ \E v \in TitleInputs : EditField("title", v)
    \/ \E v \in DescriptionInputs : EditField("description", v)
    \/ \E v \in SeverityInputs : EditField("severity", v)
    \/ \E v \in Kinds : EditField("annotationType", v)
    \/ \E i \in 1..Len(issues), type \in Sides, k \in 1..MaxAnn : ClickOverlay(i, type, k)
    \/ \E type \in Sides, p \in PressPoints : MouseDown(type, p)
    \/ \E p \in MovePoints : MouseMove(p)
    \/ MouseUp
    \/ MouseLeave

Spec == Init /\ [][Next]_vars

\* The handlers as a component contract: deleteIssue also invoked in the
\* states in which the interface hides its button.
NextHandlers ==
    \/ Next
    \/ \E i \in 1..Len(issues), confirmed \in BOOLEAN : InvokeDelete(i, confirmed)

SpecHandlers == Init /\ [][NextHandlers]_vars

-----------------------------------------------------------------------------
(* The drawing surfaces in detail: pointer positions on and around a        *)
(* surface, and the pointer events with the operation recorded in lastOp.   *)

MaxDrags == 2       \* pointer-downs of one run during an edit session
MaxDrawAnn == 2     \* a drag is not completed beyond this many primitives per side

\* Pointer positions (clientX - rect.left, clientY - rect.top).
CornerA == [x |-> 100, y |-> 100]
CornerB == [x |-> 400, y |-> 300]
NearA == [x |-> 104, y |-> 104]         \* 4 pixels from CornerA in both axes
FiveFromA == [x |-> 105, y |-> 100]     \* 5 pixels from CornerA in one axis
NearEdge == [x |-> 995, y |-> 300]      \* 5 pixels inside the design surface's right edge
PastEdge == [x |-> 1005, y |-> 100]     \* 5 pixels right of the design surface
OffSurface == [x |-> 1200, y |-> -50]   \* a position reported outside both surfaces

\* The positions tried on each surface: the design surface gets the drags
\* around the threshold, to the edge and beyond it; the live surface the drag
\* from the bottom right corner back to the top left one.
DrawPressPoints(type) ==
    IF type = "design" THEN {CornerA, PastEdge} ELSE {CornerB}
DrawMovePoints(type) ==
    IF type = "design" THEN {NearA, FiveFromA, NearEdge, OffSurface} ELSE {CornerA}

InRect(p, rect) == p.x \in 0..rect.width /\ p.y \in 0..rect.height

\* -top-3 -right-3 h-6 w-6: the badge of a box overlay is centred on the box's
\* top right corner and reaches 12 pixels beyond it.
BadgeOverhang == 12

\* getStyleFromBox: the box's top and right edges in surface pixels.
BoxTop(coords, rect) == (coords[1] * rect.height) \div 1000
BoxRight(coords, rect) == (coords[4] * rect.width) \div 1000

BadgeCovers(coords, rect, p) ==
    /\ p.x \in (BoxRight(coords, rect) - BadgeOverhang)..(BoxRight(coords, rect) + BadgeOverhang)
    /\ p.y \in (BoxTop(coords, rect) - BadgeOverhang)..(BoxTop(coords, rect) + BadgeOverhang)

\* A pointer-down reaches a surface's handler when the pointer is on the
\* surface or on a descendant that overflows it (the surface is
\* overflow-visible): the badge of a rendered box overlay.
Pressable(type, p) ==
    \/ InRect(p, Rect(type))
    \/ \E i \in 1..Len(issues) :
         \E k \in 1..Len(ShownAnnotations(i, type)) :
            /\ OverlayRendered(i, type, k)
            /\ ShownAnnotations(i, type)[k].type = "box"
            /\ BadgeCovers(ShownAnnotations(i, type)[k].coords, Rect(type), p)

SideField(type) == IF type = "design" THEN "designAnnotations" ELSE "liveAnnotations"
OtherSide(type) == IF type = "design" THEN "live" ELSE "design"

\* The drag whose release lastOp records.
DrawOp(name) ==
    [op |-> name, id |-> Null, start |-> dragStart, current |-> currentDrag]

PointerDown(type, p) ==
    /\ NoClock
    /\ Pressable(type, p)
    /\ IF editingIssueId # Null
       THEN gestures < MaxDrags /\ gestures' = gestures + 1
       ELSE NoGesture
    /\ Commit(handleMouseDown(Cur, Cur, type, p), Op("mouseDown", Null), FALSE)

PointerMove(p) ==
    /\ NoClock
    /\ NoGesture
    /\ Commit(handleMouseMove(Cur, Cur, Rect(EventSurface), p),
              Spread(Op("mouseMove", Null),
                     [abandoned |-> /\ dragStart = NoDrag
                                    /\ lastOp.op = "mouseLeave"
                                    /\ lastOp.dragging]),
              FALSE)

PointerUp ==
    /\ NoClock
    /\ NoGesture
    /\ \/ dragStart = NoDrag
       \/ BelowThreshold(dragStart, currentDrag)
       \/ Len(FieldOr(editForm, SideField(dragStart.type), << >>)) < MaxDrawAnn
    /\ Commit(handleMouseUp(Cur, Cur, Rect(EventSurface)),
              Spread(DrawOp("mouseUp"),
                     [abandoned |-> /\ dragStart = NoDrag
                                    /\ lastOp.op = "mouseMove"
                                    /\ lastOp.abandoned]),
              FALSE)

PointerLeave ==
    /\ NoClock
    /\ NoGesture
    /\ Commit(handleMouseLeave(Cur, Cur),
              Spread(Op("mouseLeave", Null), [dragging |-> dragStart # NoDrag]), FALSE)

PickKind(v) ==
    /\ NoClock
    /\ NoGesture
    /\ FormRendered
    /\ Commit(setField(Cur, Cur, "annotationType", v), Op("pickKind", Null), FALSE)

RemoveOverlay(i, type, k) ==
    /\ NoClock
    /\ NoGesture
    /\ OverlayRendered(i, type, k)
    /\ issues[i].id = editingIssueId
    /\ Commit(deleteAnnotation(Cur, Cur, type, k),
              Spread(Op("deleteAnnotation", Null), [side |-> type, index |-> k]),
              FALSE)

NextDraw ==
    \/ CreateIssue(now)
    \/ \E i \in 1..Len(issues) : ClickStartEdit(i)
    \/ PressEscape
    \/ \E v \in Kinds : PickKind(v)
    \/ \E type \in Sides : \E p \in DrawPressPoints(type) : PointerDown(type, p)
    \/ \E p \in DrawMovePoints(EventSurface) : PointerMove(p)
    \/ PointerUp
    \/ PointerLeave
    \/ \E i \in 1..Len(issues), type \in Sides, k \in 1..MaxDrawAnn :
          RemoveOverlay(i, type, k)

SpecDraw == Init /\ [][NextDraw]_vars

-----------------------------------------------------------------------------
(* Badge numbers, as the interactive view and the exported report render    *)
(* them. idx and annIndex are the zero-based indices of Array.map/forEach.  *)

\* Mutant: an overlay's badge numbers the primitive within its sequence.
overlayBadgeByPosition(idx, annIndex) == annIndex + 1

\* renderAnnotation(issue, isDesign, annotation, idx, annIndex): {idx + 1}
overlayBadge(idx, annIndex) == idx + 1

\* The list entry of issues.map((issue, idx) => ...): {idx + 1}
listBadge(idx) == idx + 1

\* Mutant: the exported report numbers from zero.
exportBadgeFromZero(idx) == idx

\* generateHtmlReport: data.issues.forEach((issue, idx) => ...): ${idx + 1} in
\* the list item, and createArrow / createBox(issue.id, ann.coords, color, idx)
\* with ${idx + 1} in the overlay's badge.
exportBadge(idx) == idx + 1

\* The badges on the overlays of one surface in the interactive view, per
\* issue and per primitive drawn for it (the buffer's for the record under edit).
InteractiveOverlayBadges(type) ==
    [i \in 1..Len(issues) |->
        [k \in 1..Len(ShownAnnotations(i, type)) |-> overlayBadge(i - 1, k - 1)]]

InteractiveListBadges == [i \in 1..Len(issues) |-> listBadge(i - 1)]

\* The badges of the report exported from the committed collection.
ExportOverlayBadges(arr, type) ==
    [i \in 1..Len(arr) |->
        [k \in 1..Len(arr[i][SideField(type)]) |-> exportBadge(i - 1)]]

ExportListBadges(arr) == [i \in 1..Len(arr) |-> exportBadge(i - 1)]

-----------------------------------------------------------------------------
(* Rendering: the overlay each context builds for a primitive. A CSS        *)
(* percentage n / 10 is kept as the exact quotient [num |-> n, den |-> 10]. *)

MaxRenderAnn == 1   \* primitives per side of the issue handed to the renderers

Quotient(n, d) == [num |-> n, den |-> d]

NoOverlay == [el |-> "none"]
DisplayNone == [display |-> "none"]

\* ReportDisplay.getStyleFromBox
getStyleFromBox(box) ==
    IF box[1] = 0 /\ box[2] = 0 /\ box[3] = 0 /\ box[4] = 0 THEN DisplayNone
    ELSE [ top |-> Quotient(box[1], 10),
           left |-> Quotient(box[2], 10),
           height |-> Quotient(box[3] - box[1], 10),
           width |-> Quotient(box[4] - box[2], 10) ]

\* ReportDisplay.renderAnnotation: null, the svg of an arrow or the div of a box.
renderAnnotation(issue, isDesign, annotation, idx, annIndex) ==
    LET c == annotation.coords IN
    IF c[1] = 0 /\ c[2] = 0 /\ c[3] = 0 /\ c[4] = 0 THEN NoOverlay
    ELSE IF annotation.type = "arrow"
    THEN [ el |-> "svg",
           viewBox |-> <<0, 0, 1000, 1000>>,
           line |-> [x1 |-> c[2], y1 |-> c[1], x2 |-> c[4], y2 |-> c[3]],
           badgeAt |-> [x |-> c[2] - 10, y |-> c[1] - 10],
           badge |-> overlayBadge(idx, annIndex) ]
    ELSE [ el |-> "div",
           style |-> getStyleFromBox(c),
           badge |-> overlayBadge(idx, annIndex) ]

\* Mutant: the exported box takes its width from the wrong corner.
getStyleWidthFromTop(box) ==
    IF box[1] = 0 /\ box[2] = 0 /\ box[3] = 0 /\ box[4] = 0 THEN DisplayNone
    ELSE [ top |-> Quotient(box[1], 10),
           left |-> Quotient(box[2], 10),
           height |-> Quotient(box[3] - box[1], 10),
           width |-> Quotient(box[4] - box[1], 10) ]

\* The exported report's getStyle(box)
getStyle(box) ==
    IF box[1] = 0 /\ box[2] = 0 /\ box[3] = 0 /\ box[4] = 0 THEN DisplayNone
    ELSE [ top |-> Quotient(box[1], 10),
           left |-> Quotient(box[2], 10),
           height |-> Quotient(box[3] - box[1], 10),
           width |-> Quotient(box[4] - box[2], 10) ]

\* The exported report's createArrow(issueId, box, color, idx): the svg is
\* built for any coords.
createArrow(issueId, box, idx) ==
    [ el |-> "svg",
      viewBox |-> <<0, 0, 1000, 1000>>,
      line |-> [x1 |-> box[2], y1 |-> box[1], x2 |-> box[4], y2 |-> box[3]],
      badgeAt |-> [x |-> box[2] - 10, y |-> box[1] - 10],
      badge |-> exportBadge(idx) ]

\* The exported report's createBox(issueId, box, color, idx)
createBox(issueId, box, idx) ==
    [ el |-> "div", style |-> getStyle(box), badge |-> exportBadge(idx) ]

\* An overlay that puts something on the surface: an element that exists and
\* is not display: none.
Visible(overlay) ==
    /\ overlay # NoOverlay
    /\ overlay.el = "div" => overlay.style # DisplayNone

\* issues.map((issue, idx) => annotations.map((ann, annIdx) => renderAnnotation(...)))
InteractiveOverlays(type) ==
    [i \in 1..Len(issues) |->
        [k \in 1..Len(ShownAnnotations(i, type)) |->
            renderAnnotation(issues[i], type = "design",
                             ShownAnnotations(i, type)[k], i - 1, k - 1)]]

\* data.issues.forEach((issue, idx) => issue.<side>Annotations.forEach(ann => ...))
ExportOverlays(arr, type) ==
    [i \in 1..Len(arr) |->
        [k \in 1..Len(arr[i][SideField(type)]) |->
            LET ann == arr[i][SideField(type)][k] IN
            IF ann.type = "arrow" THEN createArrow(arr[i].id, ann.coords, i - 1)
            ELSE createBox(arr[i].id, ann.coords, i - 1)]]

\* Coords handed to the renderers: the sentinel, a box, an arrow pointing up
\* and left, and a primitive with a single non-zero coordinate.
RenderCoords ==
    { <<0, 0, 0, 0>>, <<100, 200, 300, 400>>, <<300, 800, 100, 200>>, <<0, 0, 0, 5>> }

RenderPrimitives == [type : Kinds, coords : RenderCoords]

RECURSIVE SeqsUpTo(_, _)
SeqsUpTo(S, n) ==
    IF n = 0 THEN { << >> }
    ELSE SeqsUpTo(S, n - 1)
         \cup { Append(s, x) : s \in { t \in SeqsUpTo(S, n - 1) : Len(t) = n - 1 }, x \in S }

\* result.specificIssues as the component's property: one issue whose
\* annotation sequences are any primitives of the Annotation type.
RenderResults ==
    { << [CollabIssue EXCEPT !.liveAnnotations = live, !.designAnnotations = design] >> :
        live \in SeqsUpTo(RenderPrimitives, MaxRenderAnn),
        design \in SeqsUpTo(RenderPrimitives, MaxRenderAnn) }

InitRender ==
    /\ issues \in RenderResults
    /\ selectedIssueId = Null
    /\ editingIssueId = Null
    /\ editForm = EmptyForm
    /\ dragStart = NoDrag
    /\ currentDrag = NoPoint
    /\ now = 1
    /\ escIssues = << >>
    /\ issuesAtStart = << >>
    /\ gestures = 0
    /\ app = AppAtMount
    /\ userAction = ActionsAtMount
    /\ lastOp = [op |-> "mount", id |-> Null]

\* One surface is painted in both contexts from the same collection.
Paint(type) ==
    /\ NoClock
    /\ NoGesture
    /\ Commit(Cur,
              [ op |-> "paint", id |-> Null, side |-> type,
                interactive |-> InteractiveOverlays(type),
                export |-> ExportOverlays(issues, type) ],
              FALSE)

NextRender ==
    \/ \E type \in Sides : Paint(type)
    \/ \E i \in 1..Len(issues) : ClickListItem(i)
    \/ ModalClose

SpecRender == InitRender /\ [][NextRender]_vars

-----------------------------------------------------------------------------

(* The input adapter of runDesignQA: the collaborator's parsed JSON, in      *)
(* which an issue carries at most one box per side, becomes the result the   *)
(* component is constructed with.                                            *)

MaxRawIssues == 1   \* specific issues of a collaborator result

\* JSON values: null and arrays of numbers.
JsNull == [json |-> "null", items |-> << >>]
JsArray(s) == [json |-> "array", items |-> s]

\* What the collaborator may send for box_2d / design_box_2d: nothing, null,
\* or an array of 0, 3, 4 or 5 numbers.
Absent == [json |-> "absent", items |-> << >>]
RawBoxes(four) ==
    { Absent, JsNull, JsArray(<< >>), JsArray(<<1, 2, 3>>), JsArray(four),
      JsArray(<<1, 2, 3, 4, 5>>) }

RawFields ==
    [ id |-> 101, title |-> "Header misaligned",
      description |-> "Header is 4px too low",
      designReference |-> "ref", liveObservation |-> "obs", suggestion |-> "fix",
      severity |-> "High" ]

\* The JSON object of one issue: a key is present only when a value was sent.
RawIssue(live, design) ==
    Spread(Spread(RawFields,
                  IF live = Absent THEN EmptyForm ELSE [box_2d |-> live]),
           IF design = Absent THEN EmptyForm ELSE [design_box_2d |-> design])

RawIssues ==
    { RawIssue(live, design) :
        live \in RawBoxes(<<100, 200, 300, 400>>),
        design \in RawBoxes(<<110, 210, 310, 410>>) }

\* JSON.parse(cleanJson): "{}" when the response has no text.
RawResults ==
    { EmptyForm } \cup { [specificIssues |-> s] : s \in SeqsUpTo(RawIssues, MaxRawIssues) }

\* issue.box_2d && issue.box_2d.length === 4
HasFour(issue, f) ==
    /\ f \in DOMAIN issue
    /\ issue[f] # JsNull
    /\ Len(issue[f].items) = 4

\* Mutant: any array that was sent becomes a box.
transformIssueUnsized(issue) ==
    Spread(issue,
        [ liveAnnotations |->
              IF "box_2d" \in DOMAIN issue /\ issue.box_2d # JsNull
              THEN << [type |-> "box", coords |-> issue.box_2d.items] >> ELSE << >>,
          designAnnotations |->
              IF "design_box_2d" \in DOMAIN issue /\ issue.design_box_2d # JsNull
              THEN << [type |-> "box", coords |-> issue.design_box_2d.items] >> ELSE << >>,
          annotationType |-> "box" ])

\* The callback of rawResult.specificIssues.map
transformIssue(issue) ==
    Spread(issue,
        [ liveAnnotations |->
              IF HasFour(issue, "box_2d")
              THEN << [type |-> "box", coords |-> issue.box_2d.items] >> ELSE << >>,
          designAnnotations |->
              IF HasFour(issue, "design_box_2d")
              THEN << [type |-> "box", coords |-> issue.design_box_2d.items] >> ELSE << >>,
          annotationType |-> "box" ])

\* runDesignQA from the parsed JSON on: the transformed result, or the error
\* thrown when specificIssues cannot be mapped.
runDesignQA(rawResult) ==
    IF "specificIssues" \notin DOMAIN rawResult
    THEN [error |-> TRUE, specificIssues |-> << >>]
    ELSE [ error |-> FALSE,
           specificIssues |->
               [k \in 1..Len(rawResult.specificIssues) |->
                   transformIssue(rawResult.specificIssues[k])] ]

\* The component constructed with the adapter's result; after a failed
\* analysis there is no result, and the collection is empty.
InitAdapter ==
    /\ \E rawResult \in RawResults :
          /\ issues = runDesignQA(rawResult).specificIssues
          /\ lastOp = [ op |-> IF runDesignQA(rawResult).error
                               THEN "analysisFailed" ELSE "mount",
                        id |-> Null, raw |-> rawResult ]
    /\ selectedIssueId = Null
    /\ editingIssueId = Null
    /\ editForm = EmptyForm
    /\ dragStart = NoDrag
    /\ currentDrag = NoPoint
    /\ now = 1
    /\ escIssues = << >>
    /\ issuesAtStart = << >>
    /\ gestures = 0
    /\ app = AppAtMount
    /\ userAction = ActionsAtMount

SpecAdapter == InitAdapter /\ [][NextRender]_vars

-----------------------------------------------------------------------------

(* Export, and the edit session with its drawing surfaces, save and cancel. *)

\* designImageSrc / liveImageSrc: null, or the data URL of the uploaded image.
NoImage == "null"
ImageSrcs == { NoImage, "data:image/png;base64" }

NoArtifact == [produced |-> FALSE]

\* generateHtmlReport(issues, score, generalIssues, designImageSrc, liveImageSrc):
\* the document embeds JSON.stringify({ issues }) and the two images.
generateHtmlReport(arr, designImageSrc, liveImageSrc) ==
    [ produced |-> TRUE, issues |-> arr,
      designImage |-> designImageSrc, liveImage |-> liveImageSrc ]

\* Mutant: the report is generated whatever images there are.
handleExportUnguarded(cur, designImageSrc, liveImageSrc) ==
    generateHtmlReport(cur.issues, designImageSrc, liveImageSrc)

\* Mutant: the buffer is exported in place of the record under edit.
handleExportWithBuffer(cur, designImageSrc, liveImageSrc) ==
    IF designImageSrc = NoImage \/ liveImageSrc = NoImage THEN NoArtifact
    ELSE generateHtmlReport(
            [k \in 1..Len(cur.issues) |->
                IF cur.issues[k].id = cur.editingIssueId
                THEN Spread(cur.issues[k], cur.editForm) ELSE cur.issues[k]],
            designImageSrc, liveImageSrc)

\* handleExport: the downloaded document, if any; no cell is set.
handleExport(cur, designImageSrc, liveImageSrc) ==
    IF designImageSrc = NoImage \/ liveImageSrc = NoImage THEN NoArtifact
    ELSE generateHtmlReport(cur.issues, designImageSrc, liveImageSrc)

\* The Export button, rendered in every state.
Export(designImageSrc, liveImageSrc) ==
    /\ NoClock
    /\ NoGesture
    /\ Commit(Cur,
              [ op |-> "export", id |-> Null,
                designImage |-> designImageSrc, liveImage |-> liveImageSrc,
                artifact |-> handleExport(Cur, designImageSrc, liveImageSrc) ],
              FALSE)

\* The issue data the interactive view paints: overlays and form fields of
\* the record under edit come from the buffer, everything else from the
\* committed collection.
InteractiveData ==
    [k \in 1..Len(issues) |->
        IF issues[k].id = editingIssueId THEN Spread(issues[k], editForm)
        ELSE issues[k]]

\* The drawing surfaces with the Export button.
NextExport ==
    \/ NextDraw
    \/ \E designImageSrc \in ImageSrcs, liveImageSrc \in ImageSrcs :
          Export(designImageSrc, liveImageSrc)

SpecExport == Init /\ [][NextExport]_vars

\* The scenario of a new issue: created, drawn on with one drag position per
\* surface, and saved.
NextScenario ==
    \/ \E t \in 1..MaxClock : CreateIssue(t)
    \/ \E v \in Kinds : PickKind(v)
    \/ \E type \in Sides, p \in PressPoints : PointerDown(type, p)
    \/ \E p \in MovePoints : PointerMove(p)
    \/ PointerUp
    \/ ClickSave

SpecScenario == Init /\ [][NextScenario]_vars

\* Edit sessions on the committed records, from Edit to Save or Cancel.
NextSession ==
    \/ \E i \in 1..Len(issues) : ClickStartEdit(i)
    \/ \E v \in Kinds : PickKind(v)
    \/ \E type \in Sides, p \in PressPoints : PointerDown(type, p)
    \/ \E p \in MovePoints : PointerMove(p)
    \/ PointerUp
    \/ \E i \in 1..Len(issues), type \in Sides, k \in 1..MaxDrawAnn :
          RemoveOverlay(i, type, k)
    \/ ClickSave
    \/ ClickCancel

SpecSession == Init /\ [][NextSession]_vars

-----------------------------------------------------------------------------

(* startEdit as a handler: called on any record of the collection, also    *)
(* while another record is under edit (the interface offers Edit only when   *)
(* no record is, ClickStartEdit).                                            *)

InvokeStartEdit(i) ==
    /\ NoClock
    /\ NoGesture
    /\ i \in 1..Len(issues)
    /\ Commit(startEdit(Cur, Cur, issues[i]),
              Spread(Op("startEdit", issues[i].id),
                     [sel |-> selectedIssueId, from |-> editingIssueId, index |-> i]),
              TRUE)

NextSwitch ==
    \/ \E t \in 1..MaxClock : CreateIssue(t)
    \/ \E i \in 1..Len(issues) : InvokeStartEdit(i)
    \/ \E i \in 1..Len(issues) : ClickListItem(i)
    \/ \E v \in TitleInputs : EditField("title", v)
    \/ ClickSave

SpecSwitch == Init /\ [][NextSwitch]_vars

-----------------------------------------------------------------------------

(* The detail view's crops. *)

\* ReportDisplay.getCropStyle(issue, imageSrc, type, zoomLevel = 300)
getCropStyle(issue, imageSrc, type) ==
    IF imageSrc = NoImage THEN EmptyForm
    ELSE LET annotations == IF type = "design" THEN issue.designAnnotations
                            ELSE issue.liveAnnotations
             box == IF Len(annotations) > 0 THEN annotations[1].coords
                    ELSE <<0, 0, 0, 0>>
             minY == Min(box[1], box[3])
             maxY == Max(box[1], box[3])
             minX == Min(box[2], box[4])
             maxX == Max(box[2], box[4])
         IN [ backgroundImage |-> imageSrc,
              backgroundPosition |-> [ x |-> Quotient(minX + maxX, 20),
                                       y |-> Quotient(minY + maxY, 20) ],
              backgroundSize |-> 300 ]

\* issues.find(i => i.id === selectedIssueId), when the detail view is open
selectedIssue == issues[FindIndex(issues, selectedIssueId)]

-----------------------------------------------------------------------------

(* The surface that receives the pointer events and the surface the        *)
(* overlays are positioned on. The handlers sit on the panel (class border, *)
(* min-h-[400px]); the overlays are children of the div that wraps the      *)
(* image inside it, whose height is the image's (w-full h-auto).            *)

SurfaceBorder == 1          \* `border`: 1 pixel on every side of the panel
SurfaceMinHeight == 400     \* `min-h-[400px]`

\* Displayed sizes of the image: one taller than the panel's minimum height,
\* one shorter (a wide screenshot in a half-width column).
ImageSizes == { [width |-> 998, height |-> 498], [width |-> 998, height |-> 198] }

\* e.currentTarget.getBoundingClientRect(): the panel's border box.
eventRect(image) ==
    [ width |-> image.width + 2 * SurfaceBorder,
      height |-> Max(SurfaceMinHeight, image.height + 2 * SurfaceBorder) ]

\* The div that wraps the image, in the coordinates of the pointer positions
\* (clientX - rect.left, clientY - rect.top): the containing block of the overlays.
overlayRect(image) ==
    [ left |-> SurfaceBorder, top |-> SurfaceBorder,
      width |-> image.width, height |-> image.height ]

\* Where an overlay's origin is painted, as a fraction of the overlay surface:
\* top/left of a box's style, (x1, y1) of an arrow's line in the viewBox.
overlayOrigin(overlay) ==
    IF overlay.el = "div"
    THEN [ x |-> Quotient(overlay.style.left.num, overlay.style.left.den * 100),
           y |-> Quotient(overlay.style.top.num, overlay.style.top.den * 100) ]
    ELSE [ x |-> Quotient(overlay.line.x1, overlay.viewBox[3]),
           y |-> Quotient(overlay.line.y1, overlay.viewBox[4]) ]

\* Pointer positions relative to the panel: its top left corner, a position
\* 5 pixels from it, and two positions further in.
SurfacePressPoints == { [x |-> 0, y |-> 0], [x |-> 100, y |-> 100] }
SurfaceMovePoints == { [x |-> 0, y |-> 0], [x |-> 5, y |-> 0], [x |-> 400, y |-> 300] }

SurfaceOp(name) ==
    [op |-> name, id |-> Null, image |-> lastOp.image,
     start |-> dragStart, current |-> currentDrag]

InitSurface ==
    /\ issues \in InitialResults
    /\ selectedIssueId = Null
    /\ editingIssueId = Null
    /\ editForm = EmptyForm
    /\ dragStart = NoDrag
    /\ currentDrag = NoPoint
    /\ now = 1
    /\ escIssues = << >>
    /\ issuesAtStart = << >>
    /\ gestures = 0
    /\ app = AppAtMount
    /\ userAction = ActionsAtMount
    /\ \E image \in ImageSizes : lastOp = [op |-> "mount", id |-> Null, image |-> image]

SurfaceStartEdit(i) ==
    /\ NoClock
    /\ NoGesture
    /\ ItemButtonsRendered(i)
    /\ Commit(startEdit(Cur, Cur, issues[i]),
              Spread(Op("startEdit", issues[i].id),
                     [sel |-> selectedIssueId, image |-> lastOp.image]), TRUE)

SurfaceKind(v) ==
    /\ NoClock
    /\ NoGesture
    /\ FormRendered
    /\ Commit(setField(Cur, Cur, "annotationType", v),
              Spread(Op("pickKind", Null), [image |-> lastOp.image]), FALSE)

SurfaceDown(type, p) ==
    /\ NoClock
    /\ IF editingIssueId # Null
       THEN gestures < MaxDrags /\ gestures' = gestures + 1
       ELSE NoGesture
    /\ InRect(p, eventRect(lastOp.image))
    /\ Commit(handleMouseDown(Cur, Cur, type, p), SurfaceOp("mouseDown"), FALSE)

SurfaceMove(p) ==
    /\ NoClock
    /\ NoGesture
    /\ Commit(handleMouseMove(Cur, Cur, eventRect(lastOp.image), p),
              SurfaceOp("mouseMove"), FALSE)

SurfaceUp ==
    /\ NoClock
    /\ NoGesture
    /\ \/ dragStart = NoDrag
       \/ BelowThreshold(dragStart, currentDrag)
       \/ Len(FieldOr(editForm, SideField(dragStart.type), << >>)) < MaxDrawAnn
    /\ Commit(handleMouseUp(Cur, Cur, eventRect(lastOp.image)),
              SurfaceOp("mouseUp"), FALSE)

NextSurface ==
    \/ \E i \in 1..Len(issues) : SurfaceStartEdit(i)
    \/ \E v \in Kinds : SurfaceKind(v)
    \/ \E type \in Sides, p \in SurfacePressPoints : SurfaceDown(type, p)
    \/ \E p \in SurfaceMovePoints : SurfaceMove(p)
    \/ SurfaceUp

SpecSurface == InitSurface /\ [][NextSurface]_vars

-----------------------------------------------------------------------------

(* A pointer gesture as the browser delivers it: mousedown and mouseup reach *)
(* the surface's handlers by bubbling from the element under the pointer,   *)
(* and when both were on the same overlay a click is dispatched to it right *)
(* after the mouseup (the overlays handle onClick only and stop no          *)
(* mousedown or mouseup).                                                   *)

NoTarget == <<0, 0>>

\* The pointer is on the painted primitive: inside a box's rectangle, or on an
\* arrow's line (the svg stretches the 1000 x 1000 viewBox over the surface).
\* The primitive's corners in surface pixels are whole for the model's surfaces.
Covers(annotation, rect, p) ==
    LET c == annotation.coords
        y1 == (c[1] * rect.height) \div 1000
        x1 == (c[2] * rect.width) \div 1000
        y2 == (c[3] * rect.height) \div 1000
        x2 == (c[4] * rect.width) \div 1000
    IN IF annotation.type = "arrow"
       THEN /\ (p.x - x1) * (y2 - y1) = (p.y - y1) * (x2 - x1)
            /\ p.x \in Min(x1, x2)..Max(x1, x2)
            /\ p.y \in Min(y1, y2)..Max(y1, y2)
       ELSE p.x \in x1..x2 /\ p.y \in y1..y2

\* The overlays under the pointer, as <<issue position, annotation position>>.
OverlaysAt(type, p) ==
    { t \in (1..Len(issues)) \X (1..MaxDrawAnn) :
        /\ OverlayRendered(t[1], type, t[2])
        /\ Covers(ShownAnnotations(t[1], type)[t[2]], Rect(type), p) }

\* The event target: the overlay painted last (all overlays are z-20, so
\* document order decides), or the surface itself.
TargetAt(type, p) ==
    IF OverlaysAt(type, p) = {} THEN NoTarget
    ELSE CHOOSE t \in OverlaysAt(type, p) :
            \A u \in OverlaysAt(type, p) :
                u[1] < t[1] \/ (u[1] = t[1] /\ u[2] <= t[2])

\* onClick of an overlay: e.stopPropagation(), then delete or select.
overlayOnClick(cur, st, i, type, k) ==
    IF cur.issues[i].id = cur.editingIssueId THEN deleteAnnotation(cur, st, type, k)
    ELSE IF cur.editingIssueId = Null
         THEN [st EXCEPT !.selectedIssueId = cur.issues[i].id]
         ELSE st

\* Pointer positions of the gestures. The collaborator result's box covers the
\* pixels 100..200 by 100..300 of the live surface: a press inside it at
\* (110,110) and one outside it, a release inside it at (190,290), one 2 pixels
\* from the press and one outside it.
GesturePressPoints == { [x |-> 110, y |-> 110], [x |-> 300, y |-> 500] }
GestureMovePoints == { [x |-> 190, y |-> 290], [x |-> 112, y |-> 112], [x |-> 300, y |-> 500] }

\* The release of the button: the mouseup reaches handleMouseUp, the component
\* renders, and the click, if the browser dispatches one, reaches the overlay
\* that was under the pointer at both ends of the gesture.
GestureRelease ==
    /\ NoClock
    /\ NoGesture
    /\ dragStart # NoDrag
    /\ \/ BelowThreshold(dragStart, currentDrag)
       \/ Len(FieldOr(editForm, SideField(dragStart.type), << >>)) < MaxDrawAnn
    /\ LET type == dragStart.type
           down == TargetAt(type, dragStart)
           up == TargetAt(type, currentDrag)
           clicked == IF down = up THEN down ELSE NoTarget
           released == handleMouseUp(Cur, Cur, Rect(type))
       IN Commit(IF clicked = NoTarget THEN released
                 ELSE overlayOnClick(released, released, clicked[1], type, clicked[2]),
                 Spread(DrawOp("release"), [clicked |-> clicked]),
                 FALSE)

NextGesture ==
    \/ \E i \in 1..Len(issues) : ClickStartEdit(i)
    \/ \E v \in Kinds : PickKind(v)
    \/ \E type \in Sides, p \in GesturePressPoints : PointerDown(type, p)
    \/ \E p \in GestureMovePoints : PointerMove(p)
    \/ GestureRelease
    \/ ClickSave

SpecGesture == Init /\ [][NextGesture]_vars

-----------------------------------------------------------------------------

(* The life of a record: lastOp also carries the identifiers createIssue    *)
(* has issued and the identifiers saveEdit has committed.                   *)

Carried == [created |-> lastOp.created, saved |-> lastOp.saved]

InitRecords ==
    /\ issues \in InitialResults
    /\ selectedIssueId = Null
    /\ editingIssueId = Null
    /\ editForm = EmptyForm
    /\ dragStart = NoDrag
    /\ currentDrag = NoPoint
    /\ now = 1
    /\ escIssues = << >>
    /\ issuesAtStart = << >>
    /\ gestures = 0
    /\ app = AppAtMount
    /\ userAction = ActionsAtMount
    /\ lastOp = [op |-> "mount", id |-> Null, created |-> {}, saved |-> {}]

\* createIssue in a millisecond of its own (two creations in one millisecond
\* give two records one identifier).
RecordCreate(t) ==
    /\ NoGesture
    /\ Len(issues) < MaxIssues
    /\ t >= now
    /\ t \notin lastOp.created
    /\ now' = t
    /\ Commit(createIssue(Cur, Cur, t),
              [op |-> "createIssue", id |-> t,
               created |-> lastOp.created \cup {t}, saved |-> lastOp.saved], TRUE)

RecordStartEdit(i) ==
    /\ NoClock
    /\ NoGesture
    /\ ItemButtonsRendered(i)
    /\ Commit(startEdit(Cur, Cur, issues[i]),
              Spread(Op("startEdit", issues[i].id), Carried), TRUE)

RecordEditField(f, v) ==
    /\ NoClock
    /\ Gesture
    /\ FormRendered
    /\ Commit(setField(Cur, Cur, f, v), Spread(Other, Carried), FALSE)

RecordSave ==
    /\ NoClock
    /\ NoGesture
    /\ FormRendered
    /\ Commit(saveEdit(Cur, Cur),
              [op |-> "saveEdit", id |-> editingIssueId,
               created |-> lastOp.created,
               saved |-> lastOp.saved \cup {editingIssueId}], FALSE)

RecordCancel ==
    /\ NoClock
    /\ NoGesture
    /\ FormRendered
    /\ Commit(cancelEdit(Cur, Cur), Spread(Op("cancelEdit", editingIssueId), Carried), FALSE)

RecordEscape ==
    /\ NoClock
    /\ NoGesture
    /\ Commit(handleEsc(Cur, Cur, escIssues),
              Spread(Op("escape", editingIssueId), Carried), FALSE)

RecordDelete(i, confirmed) ==
    /\ NoClock
    /\ NoGesture
    /\ ItemButtonsRendered(i)
    /\ Commit(deleteIssue(Cur, Cur, issues[i].id, confirmed),
              Spread(IF confirmed THEN Op("deleteIssue", issues[i].id)
                     ELSE Op("deleteDeclined", Null), Carried),
              FALSE)

NextRecords ==
    \/ \E t \in 1..MaxClock : RecordCreate(t)
    \/ \E i \in 1..Len(issues) : RecordStartEdit(i)
    \/ \E v \in TitleInputs : RecordEditField("title", v)
    \/ RecordSave
    \/ RecordCancel
    \/ RecordEscape
    \/ \E i \in 1..Len(issues), confirmed \in BOOLEAN : RecordDelete(i, confirmed)

SpecRecords == InitRecords /\ [][NextRecords]_vars

-----------------------------------------------------------------------------

(* App: the two uploaders. A file the user picks is read by a FileReader of *)
(* its own; the cells change when a reader's onloadend runs.                *)

MaxReads == 3       \* FileReaders created in one run

NoPreview == [dataUrl |-> NoFile]
FileCell(type) == IF type = "design" THEN "designFile" ELSE "liveFile"
PreviewCell(type) == IF type = "design" THEN "designPreview" ELSE "livePreview"

\* App.handleImageUpload(file, type): new FileReader(), reader.readAsDataURL(file)
handleImageUpload(st, file, type) ==
    [st EXCEPT !.reads = @ \cup {[n |-> st.started + 1, file |-> file, type |-> type]},
               !.started = @ + 1]

\* reader.onloadend of the reader r
onloadend(st, r) ==
    [st EXCEPT ![FileCell(r.type)] = r.file,
               ![PreviewCell(r.type)] = DataUrl(r.file),
               !.reads = @ \ {r}]

\* App.handleImageClear(type)
handleImageClear(st, type) ==
    [st EXCEPT ![FileCell(type)] = NoFile, ![PreviewCell(type)] = NoPreview]

\* App before any upload; ReportDisplay is not mounted.
InitUpload ==
    /\ issues = << >>
    /\ selectedIssueId = Null
    /\ editingIssueId = Null
    /\ editForm = EmptyForm
    /\ dragStart = NoDrag
    /\ currentDrag = NoPoint
    /\ now = 1
    /\ escIssues = << >>
    /\ issuesAtStart = << >>
    /\ gestures = 0
    /\ lastOp = [op |-> "mount", id |-> Null]
    /\ app = [ designFile |-> NoFile, designPreview |-> NoPreview,
               liveFile |-> NoFile, livePreview |-> NoPreview,
               reads |-> {}, started |-> 0 ]
    /\ userAction = [type \in Sides |-> [kind |-> "none", file |-> NoFile]]

\* ImageUploader.handleFileChange / handleDrop: the input and the drop zone are
\* rendered while the side has no preview.
PickFile(type, file) ==
    /\ app[PreviewCell(type)] = NoPreview
    /\ app.started < MaxReads
    /\ app' = handleImageUpload(app, file, type)
    /\ userAction' = [userAction EXCEPT ![type] = [kind |-> "upload", file |-> file]]
    /\ UNCHANGED <<cells, now, escIssues, issuesAtStart, gestures, lastOp>>

\* A pending read completes; reads complete in any order.
ReadEnds(r) ==
    /\ r \in app.reads
    /\ app' = onloadend(app, r)
    /\ UNCHANGED userAction
    /\ UNCHANGED <<cells, now, escIssues, issuesAtStart, gestures, lastOp>>

\* The remove button, rendered over the preview.
ClickClear(type) ==
    /\ app[PreviewCell(type)] # NoPreview
    /\ app' = handleImageClear(app, type)
    /\ userAction' = [userAction EXCEPT ![type] = [kind |-> "clear", file |-> NoFile]]
    /\ UNCHANGED <<cells, now, escIssues, issuesAtStart, gestures, lastOp>>

NextUpload ==
    \/ \E type \in Sides, file \in Files : PickFile(type, file)
    \/ \E r \in app.reads : ReadEnds(r)
    \/ \E type \in Sides : ClickClear(type)

SpecUpload == InitUpload /\ [][NextUpload]_vars

-----------------------------------------------------------------------------

(* Properties *)

\* Claim-side vocabulary, stated on the variables alone.
RecordsOtherThan(arr, id) == SelectSeq(arr, LAMBDA r : r.id # id)
Ids(arr) == [k \in 1..Len(arr) |-> arr[k].id]

\* The committed record the identifier designates is an untouched new issue.
CommittedIsPlaceholder(id) ==
    \E k \in 1..Len(issues) :
        /\ issues[k].id = id
        /\ \A j \in 1..(k - 1) : issues[j].id # id
        /\ issues[k].liveAnnotations = << >>
        /\ issues[k].designAnnotations = << >>
        /\ issues[k].title = "New Issue"

\* C1: after createIssue(), in any state, the new record (title "New Issue",
\* severity Medium, kind box, no annotations) is the first element of the
\* committed collection and the session is Editing on its identifier.
C1_CreatedIsFirstAndEdited ==
    [][lastOp'.op = "createIssue" =>
        /\ Len(issues') >= 1
        /\ issues'[1].id = lastOp'.id
        /\ issues'[1].title = "New Issue"
        /\ issues'[1].severity = "Medium"
        /\ issues'[1].annotationType = "box"
        /\ issues'[1].liveAnnotations = << >>
        /\ issues'[1].designAnnotations = << >>
        /\ editingIssueId' = lastOp'.id]_vars

\* C2: cancelEdit() during Editing(id) removes the committed record id when it
\* is an untouched new issue, and otherwise leaves the committed collection
\* exactly as it was when the session on id began, whatever was done to the
\* buffer; either way the state becomes NoEdit and the buffer is cleared.
C2_CancelEdit ==
    [][lastOp'.op = "cancelEdit" =>
        /\ editingIssueId' = Null
        /\ editForm' = EmptyForm
        /\ IF CommittedIsPlaceholder(editingIssueId)
           THEN issues' = RecordsOtherThan(issuesAtStart, editingIssueId)
           ELSE issues' = issuesAtStart]_vars

\* C2 witness: a session with a modified buffer on a record that is no
\* placeholder was cancelled, and the record is still committed.
C2_Witness ==
    /\ lastOp.op = "cancelEdit"
    /\ lastOp.dirty
    /\ ~lastOp.removed
    /\ \E k \in 1..Len(issues) : issues[k].id = lastOp.id
    /\ editingIssueId = Null

\* C3: saveEdit() yields a committed collection with the same length and order
\* of identifiers in which the record under edit exists and carries the
\* buffer's title, description, severity, default kind and both annotation
\* sequences, every other record is unchanged, and the state is NoEdit with the
\* buffer cleared.
C3_SaveEdit ==
    [][lastOp'.op = "saveEdit" =>
        /\ Ids(issues') = Ids(issues)
        /\ \E k \in 1..Len(issues') : issues'[k].id = editingIssueId
        /\ \A k \in 1..Len(issues) :
              IF issues[k].id = editingIssueId
              THEN /\ issues'[k].title = editForm.title
                   /\ issues'[k].description = editForm.description
                   /\ issues'[k].severity = editForm.severity
                   /\ issues'[k].annotationType = editForm.annotationType
                   /\ issues'[k].liveAnnotations = editForm.liveAnnotations
                   /\ issues'[k].designAnnotations = editForm.designAnnotations
              ELSE issues'[k] = issues[k]
        /\ editingIssueId' = Null
        /\ editForm' = EmptyForm]_vars

\* C3 witness: a save committed an edited title and a drawn primitive into the
\* second of two records.
C3_Witness ==
    /\ lastOp.op = "saveEdit"
    /\ Len(issues) = 2
    /\ issues[2].id = lastOp.id
    /\ issues[1].id # lastOp.id
    /\ issues[2].title = "Header misaligned"
    /\ Len(issues[2].liveAnnotations) + Len(issues[2].designAnnotations) >= 1
    /\ issues[2].id # CollabIssue.id

\* C4: during an edit session, field edits, drags and annotation deletions
\* leave the committed collection unchanged.
C4_BufferOpsKeepCommitted ==
    [][(editingIssueId # Null /\ lastOp'.op = "other") => issues' = issues]_vars

\* C4 witness: an edit session whose buffer differs from its committed record
\* in the title and in the live annotation sequence.
C4_Witness ==
    /\ editingIssueId # Null
    /\ lastOp.op = "other"
    /\ \E k \in 1..Len(issues) :
          /\ issues[k].id = editingIssueId
          /\ editForm.title # issues[k].title
          /\ editForm.liveAnnotations # issues[k].liveAnnotations

\* C5: at most one record is under edit, and the identifier under edit
\* designates a record of the committed collection.
C5_OneRecordUnderEdit ==
    editingIssueId # Null =>
        Cardinality({k \in 1..Len(issues) : issues[k].id = editingIssueId}) = 1

\* C6: createIssue() immediately followed by cancelEdit() (by its button or by
\* the Escape key, which calls it) leaves the committed collection as long as
\* it was before createIssue().
C6_CreateThenCancel ==
    [][(lastOp.op = "createIssue" /\ lastOp'.op \in {"cancelEdit", "escape"})
         => Len(issues') = lastOp.len]_vars

\* C7: the detail selection and the edit session are never both active.
C7_SelectionExcludesEdit ==
    ~(selectedIssueId # Null /\ editingIssueId # Null)

\* C7 witness: an edit session was opened while a record was selected.
C7_Witness ==
    /\ lastOp.op \in {"startEdit", "createIssue"}
    /\ lastOp.sel # Null
    /\ editingIssueId # Null

\* C8: the Escape key while Editing does exactly what cancelEdit() would do in
\* the current state and leaves the selection alone; while NoEdit it clears the
\* selection and changes nothing else.
C8_EscapeIsCancel ==
    [][lastOp'.op = "escape" =>
        IF editingIssueId # Null
        THEN /\ issues' = cancelEdit(Cur, Cur).issues
             /\ editingIssueId' = Null
             /\ editForm' = EmptyForm
             /\ selectedIssueId' = selectedIssueId
             /\ UNCHANGED <<dragStart, currentDrag>>
        ELSE /\ selectedIssueId' = Null
             /\ UNCHANGED <<issues, editingIssueId, editForm, dragStart, currentDrag>>]_vars

\* C9: a confirmed deleteIssue(id) removes exactly the records with identifier
\* id; it ends the session (NoEdit, buffer discarded) when id was under edit
\* and leaves session and buffer alone when another record was.
C9_DeleteIssue ==
    [][lastOp'.op = "deleteIssue" =>
        /\ issues' = RecordsOtherThan(issues, lastOp'.id)
        /\ IF editingIssueId = lastOp'.id
           THEN editingIssueId' = Null /\ editForm' = EmptyForm
           ELSE editingIssueId' = editingIssueId /\ editForm' = editForm]_vars

\* C9 witness: a record was deleted while another record, still committed,
\* stayed under edit with its buffer.
C9_Witness ==
    /\ lastOp.op = "deleteIssue"
    /\ editingIssueId # Null
    /\ editingIssueId # lastOp.id
    /\ editForm # EmptyForm
    /\ \E k \in 1..Len(issues) : issues[k].id = editingIssueId

\* C10: a declined deleteIssue(id) changes nothing: committed collection,
\* session, buffer, selection and drag state.
C10_DeclinedDelete ==
    [][lastOp'.op = "deleteDeclined" => UNCHANGED cells]_vars

\* C10 witness: a deletion was declined during an edit session with a drag in
\* progress.
C10_Witness ==
    /\ lastOp.op = "deleteDeclined"
    /\ editingIssueId # Null
    /\ dragStart # NoDrag
    /\ Len(issues) >= 1

\* C11: a pointer-down on either surface while no record is under edit changes
\* nothing: the drag state, the committed collection, the buffer and the
\* selection are as before.
C11_PointerDownWithoutEdit ==
    [][(lastOp'.op = "mouseDown" /\ editingIssueId = Null) => UNCHANGED cells]_vars

\* C11 witness: a pointer-down was handled with no record under edit, a record
\* selected or committed, and the drawing machine Idle.
C11_Witness ==
    /\ lastOp.op = "mouseDown"
    /\ editingIssueId = Null
    /\ dragStart = NoDrag
    /\ Len(issues) >= 1

\* Claim-side vocabulary of the drawing claims.
Distance(a, b) == IF a > b THEN a - b ELSE b - a
BufferSeq(form, type) == FieldOr(form, SideField(type), << >>)

\* A release that ends a drag in progress.
ReleasesDrag == lastOp'.op = "mouseUp" /\ dragStart # NoDrag /\ currentDrag # NoPoint

\* C12: a release whose start and last position differ by less than 5 pixels in
\* both axes adds no primitive to the buffer and returns the drawing machine
\* to Idle; with 5 pixels or more in some axis a primitive is added.
C12_Threshold ==
    [][ReleasesDrag =>
        IF /\ Distance(dragStart.x, currentDrag.x) < 5
           /\ Distance(dragStart.y, currentDrag.y) < 5
        THEN /\ editForm' = editForm
             /\ dragStart' = NoDrag
             /\ currentDrag' = NoPoint
        ELSE Len(BufferSeq(editForm', dragStart.type))
                = Len(BufferSeq(editForm, dragStart.type)) + 1]_vars

\* C12 witness: a release 4 pixels from its start in both axes was discarded
\* while the buffer holds the box of an earlier drag of exactly 5 pixels.
C12_Witness ==
    /\ lastOp.op = "mouseUp"
    /\ lastOp.start # NoDrag
    /\ Distance(lastOp.start.x, lastOp.current.x) = 4
    /\ Distance(lastOp.start.y, lastOp.current.y) = 4
    /\ dragStart = NoDrag
    /\ BufferSeq(editForm, "design") = << [type |-> "box", coords |-> <<200, 100, 200, 105>>] >>

\* A release that completes a drag of the given kind: the displacement reaches
\* the threshold and the buffer's default kind (box when unset) is `kind`.
CompletesDrag(kind) ==
    /\ ReleasesDrag
    /\ \/ Distance(dragStart.x, currentDrag.x) >= 5
       \/ Distance(dragStart.y, currentDrag.y) >= 5
    /\ FieldOr(editForm, "annotationType", "box") = kind

\* The primitive at the end of the sequence the drag started on, after the step.
Drawn == LET seq == BufferSeq(editForm', dragStart.type) IN seq[Len(seq)]

\* The four drags over the two opposite corners p and q.
Directions(p, q) ==
    { <<p, q>>, <<q, p>>,
      << [x |-> p.x, y |-> q.y], [x |-> q.x, y |-> p.y] >>,
      << [x |-> q.x, y |-> p.y], [x |-> p.x, y |-> q.y] >> }

\* C13: the coords [yMin, xMin, yMax, xMax] of a box created by a drag satisfy
\* coords[0] <= coords[2] and coords[1] <= coords[3], and each of the four
\* drag directions over the same two opposite corners creates the same coords.
C13_BoxNormalized ==
    [][CompletesDrag("box") =>
        /\ Len(BufferSeq(editForm', dragStart.type)) >= 1
        /\ Drawn.type = "box"
        /\ Drawn.coords[1] <= Drawn.coords[3]
        /\ Drawn.coords[2] <= Drawn.coords[4]
        /\ \A d \in Directions(dragStart, currentDrag) :
              newAnnotation(d[1], d[2], Rect(dragStart.type), "box").coords
                 = Drawn.coords]_vars

\* C13 witness: a drag on the live surface from the bottom right corner to the
\* top left one created a box with the top left corner first.
C13_Witness ==
    /\ lastOp.op = "mouseUp"
    /\ lastOp.start # NoDrag
    /\ lastOp.start.type = "live"
    /\ lastOp.start.x = CornerB.x /\ lastOp.start.y = CornerB.y
    /\ lastOp.current = CornerA
    /\ BufferSeq(editForm, "live")
          = << [type |-> "box", coords |-> <<100, 200, 300, 800>>] >>

\* A pixel position as a Normalized Coordinate of a surface dimension.
Normalized(raw, dimension) == (raw * 1000) \div dimension

\* C14: the coords of an arrow created by a drag are [startY, startX, endY,
\* endX] of the normalized endpoints, in the order of the drag, so the drag
\* with start and end swapped creates different coords.
C14_ArrowDirected ==
    [][CompletesDrag("arrow") =>
        LET rect == Rect(dragStart.type) IN
        /\ Len(BufferSeq(editForm', dragStart.type)) >= 1
        /\ Drawn.type = "arrow"
        /\ Drawn.coords = << Normalized(dragStart.y, rect.height),
                             Normalized(dragStart.x, rect.width),
                             Normalized(currentDrag.y, rect.height),
                             Normalized(currentDrag.x, rect.width) >>
        /\ newAnnotation([x |-> currentDrag.x, y |-> currentDrag.y],
                         [x |-> dragStart.x, y |-> dragStart.y],
                         rect, "arrow").coords # Drawn.coords]_vars

\* C14 witness: the live buffer of a new issue holds the arrow drawn from the
\* bottom right corner to the top left one, with the start point first.
C14_Witness ==
    /\ lastOp.op = "mouseUp"
    /\ editingIssueId # Null
    /\ lastOp.start # NoDrag
    /\ lastOp.start.x = CornerB.x /\ lastOp.start.y = CornerB.y
    /\ lastOp.current = CornerA
    /\ BufferSeq(editForm, "live")
          = << [type |-> "arrow", coords |-> <<300, 800, 100, 200>>] >>

\* C15: a release that completes a drag during an edit session appends exactly
\* one primitive at the end of the buffer sequence of the side the drag began
\* on, of the buffer's default kind; everything already in the buffer, the
\* other side's sequence and the committed collection are unchanged, and the
\* drawing machine is Idle afterwards.
C15_AppendsToStartSide ==
    [][(editingIssueId # Null /\ \E kind \in Kinds : CompletesDrag(kind)) =>
        LET before == BufferSeq(editForm, dragStart.type)
            after == BufferSeq(editForm', dragStart.type)
        IN /\ Len(after) = Len(before) + 1
           /\ SubSeq(after, 1, Len(before)) = before
           /\ after[Len(after)].type = FieldOr(editForm, "annotationType", "box")
           /\ BufferSeq(editForm', OtherSide(dragStart.type))
                 = BufferSeq(editForm, OtherSide(dragStart.type))
           /\ \A f \in DOMAIN editForm \ {SideField(dragStart.type)} :
                 f \in DOMAIN editForm' /\ editForm'[f] = editForm[f]
           /\ issues' = issues
           /\ dragStart' = NoDrag
           /\ currentDrag' = NoPoint]_vars

\* C15 witness: with the collaborator's issue under edit and the kind switched
\* to arrow, a drag on the live surface put an arrow behind the box the buffer
\* already held, and the committed record still has that box only.
C15_Witness ==
    /\ lastOp.op = "mouseUp"
    /\ lastOp.start # NoDrag
    /\ lastOp.start.type = "live"
    /\ editingIssueId = CollabIssue.id
    /\ Len(BufferSeq(editForm, "live")) = 2
    /\ BufferSeq(editForm, "live")[1] = CollabIssue.liveAnnotations[1]
    /\ BufferSeq(editForm, "live")[2].type = "arrow"
    /\ BufferSeq(editForm, "design") = << >>
    /\ \E k \in 1..Len(issues) : issues[k] = CollabIssue

\* C16: when the pointer leaves the surface during a drag the drawing machine
\* returns to Idle and no primitive is created; a move and a release on the
\* surface afterwards, with the machine Idle, change nothing.
C16_LeaveAbandons ==
    [][/\ lastOp'.op = "mouseLeave" =>
            /\ dragStart' = NoDrag
            /\ currentDrag' = NoPoint
            /\ UNCHANGED <<issues, selectedIssueId, editingIssueId, editForm>>
       /\ (lastOp'.op \in {"mouseMove", "mouseUp"} /\ dragStart = NoDrag) =>
            UNCHANGED cells]_vars

\* C16 witness: during an edit session a drag was left, the pointer came back
\* and was released on the surface, and the buffer holds no primitive.
C16_Witness ==
    /\ lastOp.op = "mouseUp"
    /\ lastOp.abandoned
    /\ editingIssueId # Null
    /\ gestures >= 1
    /\ dragStart = NoDrag
    /\ BufferSeq(editForm, "design") = << >>
    /\ BufferSeq(editForm, "live") = << >>

\* C17: every primitive a drag appends has its four coordinates within
\* [0, 1000], wherever the pointer positions of the drag were reported.
C17_CoordsInRange ==
    [][(\E kind \in Kinds : CompletesDrag(kind)) =>
        /\ Len(BufferSeq(editForm', dragStart.type)) >= 1
        /\ \A n \in 1..4 : Drawn.coords[n] \in 0..1000]_vars

\* C18: deleteAnnotation(side, i) with a valid i removes exactly the element at
\* position i of the buffer sequence of side: the sequence is one shorter, the
\* elements before i keep their positions, those after i move down by one in
\* the same order, and the other side's sequence is unchanged.
C18_DeleteAnnotation ==
    [][lastOp'.op = "deleteAnnotation" =>
        LET side == lastOp'.side
            i == lastOp'.index
            before == BufferSeq(editForm, side)
            after == BufferSeq(editForm', side)
        IN /\ i \in 1..Len(before)
           /\ Len(after) = Len(before) - 1
           /\ \A j \in 1..(i - 1) : after[j] = before[j]
           /\ \A j \in i..Len(after) : after[j] = before[j + 1]
           /\ BufferSeq(editForm', OtherSide(side)) = BufferSeq(editForm, OtherSide(side))]_vars

\* C18 witness: with the collaborator's issue under edit, the box the buffer
\* began with was removed at the first position and the arrow drawn behind it
\* is now the only primitive of the live sequence.
C18_Witness ==
    /\ lastOp.op = "deleteAnnotation"
    /\ lastOp.side = "live"
    /\ lastOp.index = 1
    /\ editingIssueId = CollabIssue.id
    /\ Len(BufferSeq(editForm, "live")) = 1
    /\ BufferSeq(editForm, "live")[1].type = "arrow"

C20_SameNumberInBothContexts ==
    /\ ExportListBadges(issues) = InteractiveListBadges
    /\ \A i \in 1..Len(issues) :
          /\ InteractiveListBadges[i] = (i - 1) + 1
          /\ ExportListBadges(issues)[i] = (i - 1) + 1
          /\ \A type \in Sides :
                /\ \A k \in 1..Len(ShownAnnotations(i, type)) :
                      InteractiveOverlayBadges(type)[i][k] = InteractiveListBadges[i]
                /\ \A k \in 1..Len(issues[i][SideField(type)]) :
                      ExportOverlayBadges(issues, type)[i][k] = ExportListBadges(issues)[i]

\* C20 witness: two committed issues, a created one with a saved primitive in
\* first position and the collaborator's in second position, whose live overlay
\* shows 2 in both contexts.
C20_Witness ==
    /\ Len(issues) = 2
    /\ editingIssueId = Null
    /\ issues[2].id = CollabIssue.id
    /\ Len(issues[1].designAnnotations) + Len(issues[1].liveAnnotations) >= 1
    /\ InteractiveOverlayBadges("live")[2] = <<2>>
    /\ ExportOverlayBadges(issues, "live")[2] = <<2>>

BoxSequence(issue, f) ==
    IF f \in DOMAIN issue /\ issue[f].json = "array" /\ Len(issue[f].items) = 4
    THEN << [type |-> "box", coords |-> issue[f].items] >>
    ELSE << >>

\* C22: the adapter maps every specific issue of the collaborator result to a
\* record whose liveAnnotations is the one box box_2d when box_2d is present
\* with exactly 4 components and empty otherwise, likewise designAnnotations
\* from design_box_2d, with default kind box; an absent or wrongly sized box
\* raises no error.
C22_AdapterMapsBoxes ==
    (lastOp.op \in {"mount", "analysisFailed"} /\ "specificIssues" \in DOMAIN lastOp.raw) =>
        /\ lastOp.op = "mount"
        /\ Len(issues) = Len(lastOp.raw.specificIssues)
        /\ \A k \in 1..Len(issues) :
              /\ issues[k].liveAnnotations
                    = BoxSequence(lastOp.raw.specificIssues[k], "box_2d")
              /\ issues[k].designAnnotations
                    = BoxSequence(lastOp.raw.specificIssues[k], "design_box_2d")
              /\ issues[k].annotationType = "box"
              /\ issues[k].id = lastOp.raw.specificIssues[k].id
              /\ issues[k].title = lastOp.raw.specificIssues[k].title

\* C22 witness: the result's issue came with box_2d = [100,200,300,400] and a
\* design_box_2d of three components, and has the live box and no design box.
C22_Witness ==
    /\ lastOp.op = "mount"
    /\ "specificIssues" \in DOMAIN lastOp.raw
    /\ Len(issues) = 1
    /\ "box_2d" \in DOMAIN lastOp.raw.specificIssues[1]
    /\ "design_box_2d" \in DOMAIN lastOp.raw.specificIssues[1]
    /\ lastOp.raw.specificIssues[1].box_2d.items = <<100, 200, 300, 400>>
    /\ lastOp.raw.specificIssues[1].design_box_2d.items = <<1, 2, 3>>
    /\ issues[1].liveAnnotations = << [type |-> "box", coords |-> <<100, 200, 300, 400>>] >>
    /\ issues[1].designAnnotations = << >>

\* C23: an export request while the design image or the live image is missing
\* produces no artifact and leaves the committed collection, the edit session,
\* the buffer, the selection and the drag state as they were.
C23_ExportWithoutImage ==
    [][(lastOp'.op = "export"
          /\ (lastOp'.designImage = "null" \/ lastOp'.liveImage = "null")) =>
        /\ ~lastOp'.artifact.produced
        /\ UNCHANGED cells]_vars

\* C23 witness: with a primitive drawn in the buffer of a record under edit,
\* an export was requested with the live image missing, and nothing was
\* produced.
C23_Witness ==
    /\ lastOp.op = "export"
    /\ lastOp.designImage # "null"
    /\ lastOp.liveImage = "null"
    /\ ~lastOp.artifact.produced
    /\ editingIssueId # Null
    /\ Len(BufferSeq(editForm, "design")) >= 1

\* C24: in every reachable state the records of the committed collection have
\* pairwise distinct identifiers.
C24_DistinctIds ==
    \A i \in 1..Len(issues) : \A j \in 1..Len(issues) :
        i # j => issues[i].id # issues[j].id

\* The buffer of the scenario before its save: the defaults of createIssue
\* with the kind switched to arrow, one primitive on the live side and none on
\* the design side.
ScenarioBuffer ==
    /\ editingIssueId # Null
    /\ editForm # EmptyForm
    /\ editForm.id = editingIssueId
    /\ editForm.title = "New Issue"
    /\ editForm.severity = "Medium"
    /\ editForm.annotationType = "arrow"
    /\ Len(editForm.liveAnnotations) = 1
    /\ editForm.designAnnotations = << >>

\* The release before the save completed a drag on the live surface.
ScenarioDrag ==
    /\ lastOp.op = "mouseUp"
    /\ lastOp.start # NoDrag
    /\ lastOp.start.type = "live"
    /\ \/ Distance(lastOp.start.x, lastOp.current.x) >= 5
       \/ Distance(lastOp.start.y, lastOp.current.y) >= 5

\* C25: createIssue(), kind arrow, an above-threshold drag on the live surface
\* from (x1,y1) to (x2,y2), saveEdit(): the committed record at position 0
\* (badge 1) has liveAnnotations equal to the single arrow [y1n, x1n, y2n, x2n]
\* and no design annotation; on a 1000x1000 surface the drag from (100,100) to
\* (400,100) gives coords [100,100,100,400].
C25_CreateDrawSave ==
    [][(lastOp'.op = "saveEdit" /\ ScenarioDrag /\ ScenarioBuffer) =>
        LET rect == Rect("live") IN
        /\ Len(issues') >= 1
        /\ issues'[1].id = editingIssueId
        /\ InteractiveListBadges'[1] = 1
        /\ issues'[1].liveAnnotations
              = << [ type |-> "arrow",
                     coords |-> << Normalized(lastOp.start.y, rect.height),
                                   Normalized(lastOp.start.x, rect.width),
                                   Normalized(lastOp.current.y, rect.height),
                                   Normalized(lastOp.current.x, rect.width) >> ] >>
        /\ issues'[1].designAnnotations = << >>
        /\ newAnnotation([x |-> 100, y |-> 100], [x |-> 400, y |-> 100],
                         [width |-> 1000, height |-> 1000], "arrow").coords
              = <<100, 100, 100, 400>>]_vars

\* C25 witness: the scenario was run next to the collaborator's issue, and the
\* record saved in first position holds the arrow of the drag from (100,100)
\* to (400,100) on the live surface, 500 pixels wide and 1000 high.
C25_Witness ==
    /\ lastOp.op = "saveEdit"
    /\ editingIssueId = Null
    /\ Len(issues) = 2
    /\ issues[1].id = lastOp.id
    /\ issues[1].title = "New Issue"
    /\ issues[1].liveAnnotations
          = << [type |-> "arrow", coords |-> <<100, 200, 100, 800>>] >>
    /\ issues[1].designAnnotations = << >>
    /\ issues[2] = CollabIssue

\* C26: startEdit(Y) on a committed record Y while Editing(X), X different
\* from Y: X is removed when its committed version is an untouched placeholder
\* and the collection is otherwise unchanged, Y stays in the collection, and
\* the result is Editing(Y) with a buffer equal to Y's committed fields and no
\* detail selection.
C26_SwitchResolvesByCancel ==
    [][(/\ lastOp'.op = "startEdit"
        /\ editingIssueId # Null
        /\ editingIssueId # lastOp'.id) =>
        /\ issues' = IF CommittedIsPlaceholder(editingIssueId)
                     THEN RecordsOtherThan(issues, editingIssueId)
                     ELSE issues
        /\ \E k \in 1..Len(issues') : issues'[k] = issues[lastOp'.index]
        /\ editingIssueId' = lastOp'.id
        /\ editForm' = issues[lastOp'.index]
        /\ selectedIssueId' = Null]_vars

\* C26 witness: the session on a new issue whose buffer had a new title, but
\* whose committed version was still the placeholder, was switched to the
\* collaborator's issue: the placeholder is gone and the buffer is the
\* collaborator's record.
C26_Witness ==
    /\ lastOp.op = "startEdit"
    /\ lastOp.from # Null
    /\ lastOp.from # lastOp.id
    /\ gestures >= 1
    /\ issues = << CollabIssue >>
    /\ editingIssueId = CollabIssue.id
    /\ editForm = CollabIssue
    /\ selectedIssueId = Null

\* C27: for every non-degenerate primitive both contexts compute the same
\* geometry from the same coords: a box at top = c0/10 %, left = c1/10 %,
\* height = (c2-c0)/10 %, width = (c3-c1)/10 % of the surface, an arrow from
\* (x1,y1) to (x2,y2) in a 1000x1000 coordinate space stretched over the
\* surface, whatever the surface's pixel size.
C27_SameGeometry ==
    lastOp.op = "paint" =>
        \A i \in 1..Len(issues) :
            \A k \in 1..Len(issues[i][SideField(lastOp.side)]) :
                LET ann == issues[i][SideField(lastOp.side)][k]
                    c == ann.coords
                    shown == lastOp.interactive[i][k]
                    exported == lastOp.export[i][k]
                IN c # <<0, 0, 0, 0>> =>
                     IF ann.type = "box"
                     THEN /\ shown.el = "div" /\ exported.el = "div"
                          /\ shown.style = exported.style
                          /\ shown.style = [ top |-> [num |-> c[1], den |-> 10],
                                             left |-> [num |-> c[2], den |-> 10],
                                             height |-> [num |-> c[3] - c[1], den |-> 10],
                                             width |-> [num |-> c[4] - c[2], den |-> 10] ]
                     ELSE /\ shown.el = "svg" /\ exported.el = "svg"
                          /\ shown.viewBox = <<0, 0, 1000, 1000>>
                          /\ exported.viewBox = <<0, 0, 1000, 1000>>
                          /\ shown.line = exported.line
                          /\ shown.line = [x1 |-> c[2], y1 |-> c[1], x2 |-> c[4], y2 |-> c[3]]

\* C27 witness: the live surface was painted with an arrow running up and to
\* the left, and the design surface's collection holds a box.
C27_Witness ==
    /\ lastOp.op = "paint"
    /\ lastOp.side = "live"
    /\ Len(issues) = 1
    /\ issues[1].liveAnnotations = << [type |-> "arrow", coords |-> <<300, 800, 100, 200>>] >>
    /\ issues[1].designAnnotations = << [type |-> "box", coords |-> <<100, 200, 300, 400>>] >>
    /\ lastOp.export[1][1].line = [x1 |-> 800, y1 |-> 300, x2 |-> 200, y2 |-> 100]
    /\ lastOp.interactive[1][1].line = [x1 |-> 800, y1 |-> 300, x2 |-> 200, y2 |-> 100]

\* The primitives of a sequence that are not the sentinel [0,0,0,0].
NonDegenerate(seq) == SelectSeq(seq, LAMBDA a : a.coords # <<0, 0, 0, 0>>)

\* C28: the detail view's crop of a side is keyed on the issue's first
\* annotation on that side, degenerate primitives excluded; when the side has
\* no non-degenerate annotation, nothing croppable is rendered for it.
C28_CropKeyedOnFirstVisible ==
    (selectedIssueId # Null /\ \E k \in 1..Len(issues) : issues[k].id = selectedIssueId) =>
        \A type \in Sides : \A imageSrc \in ImageSrcs :
            LET targets == NonDegenerate(selectedIssue[SideField(type)])
                crop == getCropStyle(selectedIssue, imageSrc,
                                     type)
            IN IF targets = << >>
               THEN crop = EmptyForm
               ELSE imageSrc # "null" =>
                      /\ crop # EmptyForm
                      /\ crop.backgroundPosition
                            = [ x |-> [num |-> targets[1].coords[2] + targets[1].coords[4],
                                       den |-> 20],
                                y |-> [num |-> targets[1].coords[1] + targets[1].coords[3],
                                       den |-> 20] ]

DerivedFrom(after, before) ==
    \/ after = before
    \/ Len(after) = Len(before) + 1 /\ SubSeq(after, 1, Len(before)) = before
    \/ \E i \in 1..Len(before) :
          /\ Len(after) = Len(before) - 1
          /\ \A j \in 1..Len(after) : after[j] = IF j < i THEN before[j] ELSE before[j + 1]

\* C30: once a primitive is in an annotation sequence no operation changes its
\* kind or coords. While a session lasts, each side of the buffer keeps its
\* primitives unchanged through kind switches, further drags and deletions of
\* other primitives; a session starts on the committed sequences; every
\* committed record keeps its sequences, except the record under edit, which
\* saveEdit gives the buffer's sequences, and a record that cancelEdit removes.
C30_PrimitivesImmutable ==
    [][/\ (editingIssueId # Null /\ editingIssueId' = editingIssueId) =>
            \A type \in Sides :
                DerivedFrom(BufferSeq(editForm', type), BufferSeq(editForm, type))
       /\ (editingIssueId' # Null /\ editingIssueId' # editingIssueId) =>
            \A type \in Sides :
                \/ BufferSeq(editForm', type) = << >>
                \/ \E k \in 1..Len(issues) :
                      /\ issues[k].id = editingIssueId'
                      /\ BufferSeq(editForm', type) = issues[k][SideField(type)]
       /\ \A k \in 1..Len(issues') : \A type \in Sides :
            \/ \E j \in 1..Len(issues) :
                  /\ issues[j].id = issues'[k].id
                  /\ issues'[k][SideField(type)] = issues[j][SideField(type)]
            \/ /\ lastOp'.op = "saveEdit"
               /\ issues'[k].id = editingIssueId
               /\ issues'[k][SideField(type)] = BufferSeq(editForm, type)]_vars

\* C30 witness: with the collaborator's issue under edit an arrow was drawn
\* behind its live box and the kind was switched back to box: both primitives
\* are as they were created.
C30_Witness ==
    /\ lastOp.op = "pickKind"
    /\ editingIssueId = CollabIssue.id
    /\ editForm.annotationType = "box"
    /\ BufferSeq(editForm, "live")
          = << [type |-> "box", coords |-> <<100, 200, 300, 400>>],
               [type |-> "arrow", coords |-> <<100, 200, 100, 800>>] >>

\* The pointer position at which a drawn primitive's origin was placed: the
\* top left corner of the drag for a box, the start of the drag for an arrow.
OriginPoint(kind) ==
    IF kind = "arrow" THEN [x |-> dragStart.x, y |-> dragStart.y]
    ELSE [x |-> Min(dragStart.x, currentDrag.x), y |-> Min(dragStart.y, currentDrag.y)]

\* The painted fraction num/den of an extent lies within one pixel of the
\* pixel offset p on it.
WithinAPixel(p, fraction, extent) ==
    Abs(p * fraction.den - fraction.num * extent) <= fraction.den

\* C31: a pointer position converted to normalized coordinates by a completed
\* drag and converted back by the overlay's display geometry is painted at the
\* same relative position of the surface the overlay is drawn on. Where the
\* claim allows floating-point tolerance the formula allows a whole pixel.
C31_RoundTrip ==
    [][\A kind \in Kinds :
          CompletesDrag(kind) =>
              LET overlay == renderAnnotation(editForm', dragStart.type = "design",
                                              Drawn, 0, 0)
                  surface == overlayRect(lastOp.image)
                  painted == overlayOrigin(overlay)
                  P == OriginPoint(kind)
              IN /\ overlay # NoOverlay
                 /\ WithinAPixel(P.x - surface.left, painted.x, surface.width)
                 /\ WithinAPixel(P.y - surface.top, painted.y, surface.height)]_vars

\* C32: a pointer-up appends a primitive to the buffer only while a record is
\* under edit: a release handled after the session ended (Escape, cancelEdit
\* or saveEdit since the pointer-down) creates nothing, and the buffer stays
\* empty.
C32_ReleaseAfterSessionEnd ==
    [][(lastOp'.op = "mouseUp" /\ editingIssueId = Null) =>
          (editForm' = editForm /\ editForm' = EmptyForm)]_vars

\* C33: an above-threshold drag during an edit session removes no primitive:
\* after the gesture the buffer's sequence of the side the drag was on is the
\* previous sequence with exactly one primitive appended, also when the press
\* and the release were both over an overlay of the record under edit.
C33_DragOnlyAppends ==
    [][(/\ lastOp'.op = "release"
        /\ editingIssueId # Null
        /\ ~BelowThreshold(dragStart, currentDrag)) =>
          LET before == BufferSeq(editForm, dragStart.type)
              after == BufferSeq(editForm', dragStart.type)
          IN /\ Len(after) = Len(before) + 1
             /\ SubSeq(after, 1, Len(before)) = before]_vars

\* The identifiers of the records of a collection.
IdSet(arr) == { arr[k].id : k \in 1..Len(arr) }

\* C34: a record leaves the committed collection only through a confirmed
\* deleteIssue on it, or through the cancellation of the session on it when
\* createIssue created it and saveEdit never committed it; cancelEdit never
\* removes a record that was saved or that came with the initial result.
C34_RecordsLeave ==
    [][\A r \in IdSet(issues) \ IdSet(issues') :
          \/ lastOp'.op = "deleteIssue" /\ lastOp'.id = r
          \/ /\ lastOp'.op \in {"cancelEdit", "escape", "createIssue", "startEdit"}
             /\ editingIssueId = r
             /\ r \in lastOp.created
             /\ r \notin lastOp.saved]_vars

\* C35: no primitive a drag creates is the sentinel [0,0,0,0]: a release that
\* appends a primitive, of either kind, appends coords with a non-zero
\* component, and the primitive is painted.
C35_DrawnIsNotDegenerate ==
    [][(/\ lastOp'.op = "mouseUp"
        /\ dragStart # NoDrag
        /\ BufferSeq(editForm', dragStart.type) # BufferSeq(editForm, dragStart.type)) =>
          /\ \E n \in 1..4 : Drawn.coords[n] # 0
          /\ Visible(renderAnnotation(editForm', dragStart.type = "design",
                                      Drawn, 0, 0))]_vars

\* A drag from the surface's top left corner, 5 pixels along its top edge.
C35_Witness ==
    /\ lastOp.op = "mouseUp"
    /\ lastOp.start.x = 0 /\ lastOp.start.y = 0
    /\ lastOp.current = [x |-> 5, y |-> 0]
    /\ \E type \in Sides :
          LET seq == BufferSeq(editForm, type)
          IN /\ lastOp.start.type = type
             /\ Len(seq) > 0
             /\ seq[Len(seq)].coords = <<0, 0, 0, 5>>

\* s is t with some elements left out: the elements of s occur in t in the
\* same order.
RECURSIVE IsSubsequence(_, _)
IsSubsequence(s, t) ==
    IF s = << >> THEN TRUE
    ELSE IF t = << >> THEN FALSE
    ELSE IF Head(s) = Head(t) THEN IsSubsequence(Tail(s), Tail(t))
    ELSE IsSubsequence(s, Tail(t))

\* C36: no operation reorders the committed collection. After every event the
\* records that were in the collection before are, by identifier, the previous
\* records in their previous order with some left out, and the only record
\* that may be new is the one createIssue puts in front of them.
C36_OrderKept ==
    [][\/ IsSubsequence(Ids(issues'), Ids(issues))
       \/ /\ lastOp'.op = "createIssue"
          /\ Len(issues') > 0
          /\ issues'[1].id = lastOp'.id
          /\ IsSubsequence(Ids(Tail(issues')), Ids(issues))]_vars

\* createIssue on a collection that holds the collaborator's record.
C36_Witness ==
    /\ lastOp.op = "createIssue"
    /\ Len(issues) = 2
    /\ issues[1].id = lastOp.id
    /\ issues[2] = CollabIssue

\* C37: for each side, once no read is pending, the stored file and preview
\* are those of the user's last action on the side: the file last picked if
\* the action was an upload, nothing if it was a clear.
C37_LastActionWins ==
    app.reads = {} =>
        \A type \in Sides :
            IF userAction[type].kind = "upload"
            THEN /\ app[FileCell(type)] = userAction[type].file
                 /\ app[PreviewCell(type)] = DataUrl(userAction[type].file)
            ELSE /\ app[FileCell(type)] = NoFile
                 /\ app[PreviewCell(type)] = NoPreview

=============================================================================
